---------------------------- MODULE Spec2Model ----------------------------
(***************************************************************************)
(* A model of the table-extraction core of E-Tool:                         *)
(*   - TableExtractor            (src/lib/table-extractor.ts)              *)
(*   - detectTables              (src/src/utils/tableDetection.ts)         *)
(*   - ContentStreamParser       (src/unnamed/part_002, first copy)        *)
(*   - PDFParser                 (src/lib/pdf-parser.ts, first copy)       *)
(*                                                                         *)
(* All lengths (x, y, width, height, font size) are integers counting      *)
(* tenths of a PDF user-space unit, so that 0.6 * fontSize * length is     *)
(* exact; a source threshold of 2 units reads 20 here.  Confidence values  *)
(* are exact rationals [n, d].  Source arrays are 0-based, sequences here  *)
(* are 1-based; loop counters keep the source's 0-based values.            *)
(***************************************************************************)
EXTENDS Integers, Sequences, FiniteSets, TLC

VARIABLES
  \* TableExtractor.extractTables
  textElements,      \* the page's text elements, as returned by the parser
  lines,             \* the page's ruled lines, as returned by the parser
  options,           \* this.options: confidenceThreshold, cellMerging
  tableRegions,      \* result of detectTableRegions
  regionIdx,         \* position of the for..of loop over tableRegions (0-based)
  tables,            \* the local array `tables` of extractTables
  pc,                \* "start", "regions", "done" (returned), "error" (threw)
  \* detectTables
  items,             \* textContent.items
  sortedRows,        \* the rows [y, items], top to bottom
  detColumnPositions, \* `columnPositions`, result of detectColumnPositions
  currentTable,      \* the table in progress, or NullTable
  consecutiveAlignedRows,
  lastRowY,
  rowIndex,          \* position of sortedRows.forEach (0-based)
  detTables,         \* the local array `tables` of detectTables
  dpc,               \* "start", "walk", "done"
  \* ContentStreamParser
  data,              \* this.data, a sequence of byte values
  pos,               \* this.pos (0-based)
  tokens,            \* the local array `tokens` of tokenize
  operators,         \* the result of parse
  lpc,               \* "scan", "parse", "done"; "error" if parse threw
  \* PDFParser
  currentState,      \* this.currentState
  parserCalls,       \* calls made on the instance so far
  call,              \* the last call: "none", "text" (extractTextElements), "lines"
  pageContents,      \* the content stream of the page of that call
  pageOperators,     \* the local `operators` of the call
  opIdx,             \* operators the call's loop has been through
  locals,            \* currentMatrix, currentPath and the array collected
  lastResult,        \* what the call resolved with, or that it threw
  ppc                \* "ready" (no call running), "loop"

extVars == <<textElements, lines, options, tableRegions, regionIdx, tables, pc>>

detVars == <<items, sortedRows, detColumnPositions, currentTable,
             consecutiveAlignedRows, lastRowY, rowIndex, detTables, dpc>>

lexVars == <<data, pos, tokens, operators, lpc>>

parVars ==
  <<currentState, parserCalls, call, pageContents, pageOperators, opIdx,
    locals, lastResult, ppc>>

vars == <<extVars, detVars, lexVars, parVars>>

-----------------------------------------------------------------------------
(* Numbers *)

Abs(v) == IF v < 0 THEN -v ELSE v

\* The value of an arithmetic expression over `undefined` (NaN).  It is
\* below every coordinate, so `w > 0` is false for it, as for NaN.
NaN == -1000000

NumAdd(a, b) == IF a = NaN \/ b = NaN THEN NaN ELSE a + b

NumSub(a, b) == IF a = NaN \/ b = NaN THEN NaN ELSE a - b

\* Math.round(v / 5) * 5 for v in tenths: Math.round rounds half up.
Round5(v) == ((v + 25) \div 50) * 50

SetMin(S) == CHOOSE m \in S : \A o \in S : m <= o

SetMax(S) == CHOOSE m \in S : \A o \in S : m >= o

RECURSIVE SumSeq(_)
SumSeq(s) == IF s = <<>> THEN 0 ELSE Head(s) + SumSeq(Tail(s))

RECURSIVE Gcd(_, _)
Gcd(a, b) == IF b = 0 THEN a ELSE Gcd(b, a % b)

\* Exact rationals n/d with d > 0, kept in lowest terms.
Rat(n, d) == LET g == Gcd(Abs(n), d) IN [n |-> n \div g, d |-> d \div g]

RatMul(p, q) == Rat(p.n * q.n, p.d * q.d)

RatAdd(p, q) == Rat(p.n * q.d + q.n * p.d, p.d * q.d)

RatLess(p, q) == p.n * q.d < q.n * p.d

-----------------------------------------------------------------------------
(* Arrays *)

\* Array.prototype.sort with a numeric key: stable, ascending by key[i].
\* sort(compare) on n entries, compare[i][j] being the comparator's result
\* for entries i and j: the stable order.
RECURSIVE InsertByCompare(_, _, _)
InsertByCompare(perm, i, compare) ==
  IF perm = <<>> THEN <<i>>
  ELSE IF compare[perm[Len(perm)]][i] > 0
  THEN Append(InsertByCompare(SubSeq(perm, 1, Len(perm) - 1), i, compare),
              perm[Len(perm)])
  ELSE Append(perm, i)

RECURSIVE SortByCompare(_, _)
SortByCompare(n, compare) ==
  IF n = 0 THEN <<>> ELSE InsertByCompare(SortByCompare(n - 1, compare), n, compare)

\* sort((a, b) => key(a) - key(b))
StableSort(seq, key) ==
  LET n == Len(seq)
      order == SortByCompare(n, [i \in 1..n |-> [j \in 1..n |-> key[i] - key[j]]])
  IN [k \in 1..n |-> seq[order[k]]]

\* sort((a, b) => a.x - b.x)
SortByX(seq) == StableSort(seq, [k \in 1..Len(seq) |-> seq[k].x])

\* Array.from(set).sort((a, b) => a - b)
RECURSIVE SetToSortedSeq(_)
SetToSortedSeq(S) ==
  IF S = {} THEN <<>> ELSE LET m == SetMin(S) IN <<m>> \o SetToSortedSeq(S \ {m})

\* The elements of seq at the positions in S, in order.
RECURSIVE PickIdx(_, _, _)
PickIdx(seq, S, k) ==
  IF k > Len(seq) THEN <<>>
  ELSE (IF k \in S THEN <<seq[k]>> ELSE <<>>) \o PickIdx(seq, S, k + 1)

\* array.splice(k, 1) with 1-based k
RemoveAt(seq, k) == SubSeq(seq, 1, k - 1) \o SubSeq(seq, k + 1, Len(seq))

\* text.trim() is empty
BlankText(t) == t \in {"", " ", "  "}

-----------------------------------------------------------------------------
(* TableExtractor: region detection *)

\* Inner loop of clusterTextElements: the not yet processed elements that
\* join the cluster of seed s.
ClusterJoin(sorted, s, processed) ==
  LET element == sorted[s] IN
  { o \in 1..Len(sorted) :
      /\ o \notin processed
      /\ o # s
      /\ LET other == sorted[o]
             verticalGap == Abs(other.y - element.y)
             horizontalGap == Abs(other.x - (element.x + element.width))
         IN \/ verticalGap * 2 < element.height * 3
            \/ horizontalGap * 2 < element.width }

RECURSIVE ClusterLoop(_, _, _, _)
ClusterLoop(sorted, s, processed, clusters) ==
  IF s > Len(sorted) THEN clusters
  ELSE IF s \in processed THEN ClusterLoop(sorted, s + 1, processed, clusters)
  ELSE LET joined == ClusterJoin(sorted, s, processed)
           cluster == <<sorted[s]>> \o PickIdx(sorted, joined, 1)
       IN ClusterLoop(sorted, s + 1, processed \cup {s} \cup joined,
                      IF Len(cluster) > 1 THEN Append(clusters, cluster)
                                          ELSE clusters)

clusterTextElements(elements) ==
  \* sort((a, b) => b.y - a.y)
  LET sorted == StableSort(elements, [k \in 1..Len(elements) |-> -elements[k].y])
  IN ClusterLoop(sorted, 1, {}, <<>>)

calculateClusterBounds(cluster) ==
  LET idx == 1..Len(cluster)
      minX == SetMin({cluster[k].x : k \in idx})
      maxX == SetMax({cluster[k].x + cluster[k].width : k \in idx})
      minY == SetMin({cluster[k].y : k \in idx})
      maxY == SetMax({cluster[k].y + cluster[k].height : k \in idx})
  IN [x |-> minX, y |-> minY, width |-> maxX - minX, height |-> maxY - minY]

findRelevantLines(ls, bounds) ==
  LET padding == 100
      ex == bounds.x - padding
      ey == bounds.y - padding
      ew == bounds.width + padding * 2
      eh == bounds.height + padding * 2
  IN SelectSeq(ls, LAMBDA line :
        /\ line.start.x >= ex /\ line.start.x <= ex + ew
        /\ line.start.y >= ey /\ line.start.y <= ey + eh)

RECURSIVE GroupLoop(_, _, _, _, _)
GroupLoop(sorted, k, currentRow, currentY, rows) ==
  IF k > Len(sorted)
  THEN IF Len(currentRow) > 0 THEN Append(rows, SortByX(currentRow)) ELSE rows
  ELSE LET element == sorted[k]
           newRow == Abs(element.y - currentY) * 2 > element.height
           flush == newRow /\ Len(currentRow) > 0
       IN GroupLoop(sorted, k + 1,
                    Append(IF flush THEN <<>> ELSE currentRow, element),
                    IF newRow THEN element.y ELSE currentY,
                    IF flush THEN Append(rows, SortByX(currentRow)) ELSE rows)

\* Callers pass at least one element (sorted[0].y is read unguarded).
groupIntoRows(elements) ==
  LET sorted == StableSort(elements, [k \in 1..Len(elements) |-> -elements[k].y])
  IN GroupLoop(sorted, 1, <<>>, sorted[1].y, <<>>)

\* All elements of all rows, as a set of [r, k] positions.
RowElems(rows) ==
  UNION {{<<r, k>> : k \in 1..Len(rows[r])} : r \in 1..Len(rows)}

analyzeColumnAlignment(rows) ==
  IF Len(rows) < 2 THEN 0
  ELSE LET elemIdx == RowElems(rows)
           roundedX(p) == Round5(rows[p[1]][p[2]].x)
           keys == {roundedX(p) : p \in elemIdx}
           count(key) == Cardinality({p \in elemIdx : roundedX(p) = key})
       IN Cardinality({key \in keys : count(key) * 10 >= Len(rows) * 7})

\* gaps.every(gap => Math.abs(gap - avg) < avg * num/den), avg the mean
EveryNearAvg(gaps, num, den) ==
  LET total == SumSeq(gaps)
      m == Len(gaps)
  IN \A k \in 1..m : Abs(m * gaps[k] - total) * den < total * num

checkRegularSpacing(rows) ==
  IF Len(rows) < 2 THEN FALSE
  ELSE LET rowGaps == [i \in 1..(Len(rows) - 1) |-> rows[i][1].y - rows[i + 1][1].y]
           rowOk(row) ==
             Len(row) < 2 \/
             EveryNearAvg([i \in 1..(Len(row) - 1) |->
                            row[i + 1].x - (row[i].x + row[i].width)], 1, 2)
       IN /\ EveryNearAvg(rowGaps, 3, 10)
          /\ \A r \in 1..Len(rows) : rowOk(rows[r])

analyzeLineSpacing(ls, axis) ==
  LET key == [k \in 1..Len(ls) |->
                IF axis = "x" THEN ls[k].start.x ELSE ls[k].start.y]
      positions == StableSort(key, key)
      gaps == [i \in 1..(Len(ls) - 1) |-> positions[i + 1] - positions[i]]
  IN IF Len(gaps) = 0 THEN FALSE ELSE EveryNearAvg(gaps, 3, 10)

checkGridPattern(ls) ==
  LET horizontalLines == SelectSeq(ls, LAMBDA l : Abs(l.start.y - l.end.y) < 20)
      verticalLines == SelectSeq(ls, LAMBDA l : Abs(l.start.x - l.end.x) < 20)
  IN IF Len(horizontalLines) < 2 \/ Len(verticalLines) < 2 THEN FALSE
     ELSE analyzeLineSpacing(horizontalLines, "y")
          /\ analyzeLineSpacing(verticalLines, "x")

isLikelyTable(elements, ls) ==
  IF Len(elements) < 4 THEN FALSE
  ELSE LET rows == groupIntoRows(elements) IN
       IF Len(rows) < 2 THEN FALSE
       ELSE IF analyzeColumnAlignment(rows) < 2 THEN FALSE
       ELSE IF ~checkRegularSpacing(rows) THEN FALSE
       ELSE IF Len(ls) > 0 /\ ~checkGridPattern(ls) THEN FALSE
       ELSE TRUE

\* The loop of detectTableRegions, before mergeOverlappingRegions.
RECURSIVE RegionLoop(_, _, _)
RegionLoop(clusters, ls, k) ==
  IF k > Len(clusters) THEN <<>>
  ELSE LET cluster == clusters[k]
           bounds == calculateClusterBounds(cluster)
           relevantLines == findRelevantLines(ls, bounds)
       IN (IF isLikelyTable(cluster, relevantLines)
           THEN << [x |-> bounds.x, y |-> bounds.y, width |-> bounds.width,
                    height |-> bounds.height, lines |-> relevantLines,
                    textElements |-> cluster] >>
           ELSE <<>>) \o RegionLoop(clusters, ls, k + 1)

\* mergeOverlappingRegions: with fewer than two regions the input is
\* returned.  Otherwise the body of the outer for loop declares
\* `let merged = false`, which shadows the result array `merged`; the loop
\* over the other regions runs, and `merged.push(current)` at the end of the
\* first iteration is a call of `push` on a boolean: a TypeError.
mergeOverlappingRegions(regions) ==
  IF Len(regions) < 2 THEN [ok |-> TRUE, regions |-> regions]
  ELSE [ok |-> FALSE, regions |-> <<>>]

detectTableRegions(elements, ls) ==
  mergeOverlappingRegions(RegionLoop(clusterTextElements(elements), ls, 1))

-----------------------------------------------------------------------------
(* TableExtractor: grid formation *)

identifyColumnPositions(rows) ==
  LET elemIdx == RowElems(rows)
  IN SetToSortedSeq({Round5(rows[p[1]][p[2]].x) : p \in elemIdx}
                    \cup {Round5(rows[p[1]][p[2]].x + rows[p[1]][p[2]].width) : p \in elemIdx})

\* columnPositions[c] for a 0-based c; reading past the end gives undefined,
\* and arithmetic on undefined gives NaN.
ColAt(columnPositions, c) ==
  IF c < Len(columnPositions) THEN columnPositions[c + 1] ELSE NaN

\* A createGrid whose empty cells all sit at the left page edge.
EmptyCell_AtPageEdge(columnPositions, c, y, height) ==
  [text |-> "", x |-> 0, y |-> y,
   width |-> NumSub(ColAt(columnPositions, c + 1), ColAt(columnPositions, c)),
   height |-> height, rowSpan |-> 0, colSpan |-> 0]

\* A cell without spans: rowSpan and colSpan 0 stand for "not set".
EmptyCell(columnPositions, c, y, height) ==
  [text |-> "", x |-> ColAt(columnPositions, c), y |-> y,
   width |-> NumSub(ColAt(columnPositions, c + 1), ColAt(columnPositions, c)),
   height |-> height, rowSpan |-> 0, colSpan |-> 0]

\* The while loop that adds an empty cell for every skipped column.
RECURSIVE SkipColumns(_, _, _, _)
SkipColumns(columnPositions, element, cells, currentCol) ==
  IF /\ currentCol < Len(columnPositions) - 1
     /\ element.x * 2 >= ColAt(columnPositions, currentCol + 1)
                          + ColAt(columnPositions, currentCol)
  THEN SkipColumns(columnPositions, element,
                   Append(cells, EmptyCell(columnPositions, currentCol,
                                           element.y, element.height)),
                   currentCol + 1)
  ELSE [cells |-> cells, currentCol |-> currentCol]

\* The for loop over the elements of one row.
RECURSIVE PlaceElements(_, _, _, _, _)
PlaceElements(columnPositions, row, k, cells, currentCol) ==
  IF k > Len(row) THEN [cells |-> cells, currentCol |-> currentCol]
  ELSE LET skipped == SkipColumns(columnPositions, row[k], cells, currentCol)
           element == row[k]
           cell == [text |-> element.text, x |-> element.x, y |-> element.y,
                    width |-> element.width, height |-> element.height,
                    rowSpan |-> 0, colSpan |-> 0]
       IN PlaceElements(columnPositions, row, k + 1,
                        Append(skipped.cells, cell), skipped.currentCol + 1)

\* The while loop that fills the remaining columns with empty cells.
RECURSIVE FillRemaining(_, _, _, _)
FillRemaining(columnPositions, row, cells, currentCol) ==
  IF currentCol < Len(columnPositions)
  THEN FillRemaining(columnPositions, row,
                     Append(cells, EmptyCell(columnPositions, currentCol,
                                             row[1].y, row[1].height)),
                     currentCol + 1)
  ELSE cells

createGrid(rows) ==
  LET columnPositions == identifyColumnPositions(rows)
      placed(row) == PlaceElements(columnPositions, row, 1, <<>>, 0)
  IN IF Len(columnPositions) < 2 THEN <<>>
     ELSE [r \in 1..Len(rows) |->
             FillRemaining(columnPositions, rows[r], placed(rows[r]).cells,
                           placed(rows[r]).currentCol)]

-----------------------------------------------------------------------------
(* TableExtractor: merged cells *)

Span(s) == IF s = 0 THEN 1 ELSE s

\* Horizontal pass over one row; j is the source's 0-based column counter
\* (after an absorption the source does j-- and the loop j++).
RECURSIVE MergeRow(_, _)
MergeRow(row, j) ==
  IF j >= Len(row) - 1 THEN row
  ELSE LET current == row[j + 1]
           next == row[j + 2]
       IN IF /\ current.text # ""
             /\ next.text = ""
             /\ Abs(current.y - next.y) < 20
          THEN MergeRow(
                 RemoveAt([row EXCEPT ![j + 1] =
                             [current EXCEPT
                                !.width = NumAdd(current.width, next.width),
                                !.colSpan = Span(current.colSpan) + 1]],
                          j + 2),
                 j)
          ELSE MergeRow(row, j + 1)

\* Vertical pass; j and i are the source's 0-based counters.  ok = FALSE is
\* the TypeError of reading `.text` of a cell index a row does not have.
RECURSIVE MergeColumns(_, _, _)
MergeColumns(grid, j, i) ==
  IF j >= Len(grid[1]) THEN [ok |-> TRUE, grid |-> grid]
  ELSE IF i >= Len(grid) - 1 THEN MergeColumns(grid, j + 1, 0)
  ELSE IF j >= Len(grid[i + 1]) THEN [ok |-> FALSE, grid |-> grid]
  ELSE LET current == grid[i + 1][j + 1] IN
       IF current.text = "" THEN MergeColumns(grid, j, i + 1)
       ELSE IF j >= Len(grid[i + 2]) THEN [ok |-> FALSE, grid |-> grid]
       ELSE LET below == grid[i + 2][j + 1] IN
            IF below.text = "" /\ Abs(current.x - below.x) < 20
            THEN LET absorbed ==
                       [grid EXCEPT
                          ![i + 1][j + 1] =
                             [current EXCEPT
                                !.height = NumAdd(current.height, below.height),
                                !.rowSpan = Span(current.rowSpan) + 1],
                          ![i + 2] = RemoveAt(grid[i + 2], j + 1)]
                 IN IF Len(absorbed[i + 2]) = 0
                    THEN MergeColumns(RemoveAt(absorbed, i + 2), j, i)
                    ELSE MergeColumns(absorbed, j, i + 1)
            ELSE MergeColumns(grid, j, i + 1)

detectAndMergeCells(grid) ==
  MergeColumns([r \in 1..Len(grid) |-> MergeRow(grid[r], 0)], 0, 0)

-----------------------------------------------------------------------------
(* TableExtractor: scoring and validation *)

TotalCells(grid) == SumSeq([r \in 1..Len(grid) |-> Len(grid[r])])

RECURSIVE AlignmentSum(_, _)
AlignmentSum(grid, j) ==
  LET \* the contribution of column j (0-based) to alignmentScore
      colCells == {r \in 1..Len(grid) :
                     j < Len(grid[r]) /\ grid[r][j + 1].text # ""}
      xPositions == {Round5(grid[r][j + 1].x) : r \in colCells}
      columnAlignment == IF Cardinality(colCells) < 2 THEN Rat(0, 1)
                         ELSE Rat(1, Cardinality(xPositions))
  IN IF j >= Len(grid[1]) THEN Rat(0, 1)
     ELSE RatAdd(columnAlignment, AlignmentSum(grid, j + 1))

\* A calculateConfidence that returns the product as it stands.
Clamp_Missing(confidence) == confidence

\* Math.min(Math.max(confidence, 0), 1)
Clamp(confidence) ==
  IF RatLess(confidence, Rat(0, 1)) THEN Rat(0, 1)
  ELSE IF RatLess(Rat(1, 1), confidence) THEN Rat(1, 1)
  ELSE confidence

calculateConfidence(grid, region) ==
  LET rowLengths == {Len(grid[r]) : r \in 1..Len(grid)}
      rowFactor == IF Cardinality(rowLengths) > 1 THEN Rat(8, 10) ELSE Rat(1, 1)
      totalCells == TotalCells(grid)
      \* row.filter(cell => !cell.text).length, summed over the rows
      emptyCells ==
        SumSeq([r \in 1..Len(grid) |->
                  Cardinality({k \in 1..Len(grid[r]) : grid[r][k].text = ""})])
      emptyFactor == Rat(2 * totalCells - emptyCells, 2 * totalCells)
      alignmentScore == RatMul(AlignmentSum(grid, 0), Rat(1, Len(grid[1])))
      alignFactor == RatAdd(Rat(8, 10), RatMul(alignmentScore, Rat(2, 10)))
      lineFactor == IF Len(region.lines) > 0
                    THEN IF checkGridPattern(region.lines) THEN Rat(11, 10)
                                                          ELSE Rat(9, 10)
                    ELSE Rat(1, 1)
      confidence == RatMul(RatMul(rowFactor, emptyFactor),
                           RatMul(alignFactor, lineFactor))
  IN Clamp(confidence)

\* A validateTable that skips the row consistency check.
RowsConsistent_Skipped(cells) == TRUE

\* table.cells.every(row => row.length === rowLength)
RowsConsistent(cells) ==
  \A r \in 1..Len(cells) : Len(cells[r]) = Len(cells[1])

\* A validateTable that skips the content density check.
DenseEnough_Skipped(nonEmptyCells, totalCells) == TRUE

\* nonEmptyCells / totalCells >= 0.3
DenseEnough(nonEmptyCells, totalCells) == nonEmptyCells * 10 >= totalCells * 3

validateTable(table) ==
  LET cells == table.cells IN
  IF Len(cells) = 0 \/ Len(cells[1]) = 0 THEN FALSE
  ELSE IF Len(cells) < 2 \/ Len(cells[1]) < 2 THEN FALSE
  ELSE IF ~RowsConsistent(cells) THEN FALSE
  ELSE LET totalCells == TotalCells(cells)
           \* row.filter(cell => cell.text.trim()).length, summed over the rows
           nonEmptyCells ==
             SumSeq([r \in 1..Len(cells) |->
                       Cardinality({k \in 1..Len(cells[r]) :
                                      ~BlankText(cells[r][k].text)})])
       IN DenseEnough(nonEmptyCells, totalCells)

\* kind "null": no table; "throw": an exception leaves extractTables;
\* "table": the candidate handed to validateTable.
NoTable(kind) == [kind |-> kind, cells |-> <<>>, confidence |-> Rat(0, 1)]

\* An extractTableFromRegion that never drops a candidate for its score.
BelowThreshold_Never(confidence, opts) == FALSE

\* confidence < this.options.confidenceThreshold
BelowThreshold(confidence, opts) ==
  RatLess(confidence, opts.confidenceThreshold)

\* if (this.options.cellMerging) { this.detectAndMergeCells(grid); }
MergeIfEnabled(grid, opts) ==
  IF opts.cellMerging THEN detectAndMergeCells(grid)
  ELSE [ok |-> TRUE, grid |-> grid]

extractTableFromRegion(region, opts) ==
  LET rows == groupIntoRows(region.textElements) IN
  IF Len(rows) < 2 THEN NoTable("null")
  ELSE LET grid == createGrid(rows) IN
       IF Len(grid) = 0 THEN NoTable("null")
       ELSE LET merged == MergeIfEnabled(grid, opts)
            IN IF ~merged.ok THEN NoTable("throw")
               ELSE LET confidence == calculateConfidence(merged.grid, region)
                    IN IF BelowThreshold(confidence, opts)
                       THEN NoTable("null")
                       ELSE [kind |-> "table", cells |-> merged.grid,
                             confidence |-> confidence]

\* The body of the loop over tableRegions in extractTables, from region k
\* (1-based) on: ok = FALSE when extractTableFromRegion throws.
RECURSIVE RegionsFrom(_, _, _, _)
RegionsFrom(regions, opts, k, acc) ==
  IF k > Len(regions) THEN [ok |-> TRUE, tables |-> acc]
  ELSE LET table == extractTableFromRegion(regions[k], opts) IN
       IF table.kind = "throw" THEN [ok |-> FALSE, tables |-> <<>>]
       ELSE IF table.kind = "table" /\ validateTable(table)
       THEN RegionsFrom(regions, opts, k + 1,
                        Append(acc, [cells |-> table.cells,
                                     confidence |-> table.confidence,
                                     pageNumber |-> 1]))
       ELSE RegionsFrom(regions, opts, k + 1, acc)

\* extractTables on a one-page document, as a function of its inputs.
extractTables(elements, ls, opts) ==
  LET detected == detectTableRegions(elements, ls)
  IN IF ~detected.ok THEN [ok |-> FALSE, tables |-> <<>>]
     ELSE RegionsFrom(detected.regions, opts, 1, <<>>)

-----------------------------------------------------------------------------
(* Inputs of TableExtractor *)

\* Most elements of a page.
MaxElems == 8

MkElement(text, x, y, fontSize) ==
  [text |-> text, x |-> x, y |-> y, width |-> (Len(text) * fontSize * 6) \div 10,
   height |-> fontSize, fontSize |-> fontSize, fontName |-> "F1"]

\* Positions a page draws from, in reading order: an upper block of two
\* baselines 15 units apart with three columns, and a lower block with two.
Pool ==
  << MkElement("abc", 500, 7000, 120), MkElement("abc", 1000, 7000, 120),
     MkElement("abc", 1500, 7000, 120),
     MkElement("abc", 500, 6850, 120), MkElement("abc", 1000, 6850, 120),
     MkElement("abc", 1500, 6850, 120),
     MkElement("abc", 500, 6000, 120), MkElement("abc", 1000, 6000, 120),
     MkElement("abc", 500, 5850, 120), MkElement("abc", 1000, 5850, 120) >>

PoolPages ==
  {PickIdx(Pool, S, 1) : S \in {T \in SUBSET (1..Len(Pool)) : Cardinality(T) <= MaxElems}}

\* Scenario S1, "Employee Information": size 12, baselines 700..640.
S1Texts ==
  << <<"Name", "Age", "City">>,
     <<"John Smith", "35", "New York">>,
     <<"Jane Doe", "28", "Los Angeles">>,
     <<"Bob Johnson", "42", "Chicago">> >>

S1Page ==
  [k \in 1..12 |->
     LET r == ((k - 1) \div 3) + 1
         c == ((k - 1) % 3) + 1
     IN MkElement(S1Texts[r][c], <<500, 2000, 2800>>[c], 7000 - 200 * (r - 1), 120)]

\* A page of two baselines 20 units apart, not in reading order: a wide
\* element whose right edge lies next to the two columns of short elements.
FarRowsPage ==
  << MkElement("a", 1200, 6800, 120), MkElement("a", 1050, 6800, 120),
     MkElement("abcdefg", 500, 7000, 120),
     MkElement("a", 1200, 7000, 120), MkElement("a", 1050, 7000, 120) >>

\* A page of two rows and two columns whose second column holds only a
\* space.
BlankPage ==
  << MkElement("abc", 500, 7000, 120), MkElement(" ", 1000, 7000, 120),
     MkElement("abc", 500, 6850, 120), MkElement(" ", 1000, 6850, 120) >>

\* A page in a font of size 2: two rows 2 units apart of three one-letter
\* elements 2 units apart, whose six edges round to two column positions.
TinyPage ==
  << MkElement("a", 500, 7000, 20), MkElement("a", 520, 7000, 20),
     MkElement("a", 540, 7000, 20),
     MkElement("a", 500, 6980, 20), MkElement("a", 520, 6980, 20),
     MkElement("a", 540, 6980, 20) >>

MkLine(x1, y1, x2, y2) ==
  [start |-> [x |-> x1, y |-> y1], end |-> [x |-> x2, y |-> y2], width |-> 10]

\* Ruled lines of a page: none, a frame around the upper block, one rule.
LinePages ==
  { <<>>,
    << MkLine(450, 6800, 1800, 6800), MkLine(450, 7150, 1800, 7150),
      MkLine(450, 6800, 450, 7150), MkLine(1800, 6800, 1800, 7150) >>,
    <<MkLine(450, 6800, 1800, 6800)>> }

Thresholds == {Rat(5, 10), Rat(7, 10), Rat(95, 100)}

DefaultOptions == [confidenceThreshold |-> Rat(7, 10), cellMerging |-> TRUE]

-----------------------------------------------------------------------------
(* detectTables (tableDetection.ts) *)

\* Math.round(v / 2) * 2 for v in tenths.
Round2(v) == ((v + 10) \div 20) * 20

\* Math.round(v / 3) * 3 for v in tenths.
Round3(v) == ((v + 15) \div 30) * 30

\* Step 1: the Map from rounded y to the items of that row, as entries
\* sorted by descending y.
GroupedRows(its) ==
  LET ys == {Round2(its[k].y) : k \in 1..Len(its)}
      asc == SetToSortedSeq(ys)
      n == Len(asc)
  IN [r \in 1..n |->
        [y |-> asc[n + 1 - r],
         items |-> SelectSeq(its, LAMBDA it : Round2(it.y) = asc[n + 1 - r])]]

detectColumnPositions(its) ==
  LET xs == {Round3(its[k].x) : k \in 1..Len(its)}
      at(x) == {k \in 1..Len(its) : Round3(its[k].x) = x}
      kept == {x \in xs : Cardinality(at(x)) > 2}
      asc == SetToSortedSeq(kept)
  IN [c \in 1..Len(asc) |->
        [x |-> asc[c],
         width |-> SetMax({its[k].width : k \in at(asc[c])}),
         frequency |-> Cardinality(at(asc[c]))]]

calculateAlignmentScore(its, columns) ==
  LET isAligned(item) ==
        \E c \in 1..Len(columns) :
          \/ Abs(item.x - columns[c].x) < 50
          \/ Abs((item.x + item.width) - (columns[c].x + columns[c].width)) < 50
      alignedItems == Cardinality({k \in 1..Len(its) : isAligned(its[k])})
  IN Rat(alignedItems, Len(its))

\* Math.max(0, 1 - variance / (avgSpace * avgSpace)) with
\*   variance / avgSpace^2 = (n * sum(s^2) - sum(s)^2) / sum(s)^2.
\* nan: all spaces are 0 and the quotient is 0 / 0.
calculateSpacingScore(its) ==
  IF Len(its) < 2 THEN [nan |-> FALSE, v |-> Rat(0, 1)]
  ELSE LET spaces == [i \in 1..(Len(its) - 1) |->
                        its[i + 1].x - (its[i].x + its[i].width)]
           n == Len(spaces)
           total == SumSeq(spaces)
           squares == SumSeq([i \in 1..n |-> spaces[i] * spaces[i]])
       IN IF total = 0
          THEN [nan |-> squares = 0, v |-> Rat(0, 1)]
          ELSE [nan |-> FALSE,
                v |-> IF 2 * total * total - n * squares < 0 THEN Rat(0, 1)
                      ELSE Rat(2 * total * total - n * squares, total * total)]

\* The confidence of a row; nan marks a NaN score.
analyzeRow(its, columns) ==
  IF Len(its) < 2 THEN [nan |-> FALSE, confidence |-> Rat(0, 1)]
  ELSE LET sortedItems == SortByX(its)
           alignmentScore == calculateAlignmentScore(sortedItems, columns)
           spacingScore == calculateSpacingScore(sortedItems)
           density == IF Len(columns) = 0 \/ Len(its) >= Len(columns)
                      THEN Rat(1, 1)
                      ELSE Rat(Len(its), Len(columns))
       IN [nan |-> spacingScore.nan,
           confidence |->
             RatAdd(RatMul(alignmentScore, Rat(5, 10)),
                    RatAdd(RatMul(spacingScore.v, Rat(3, 10)),
                           RatMul(density, Rat(2, 10))))]

\* rowAnalysis.confidence > 0.7
IsTableRow(rowAnalysis) ==
  ~rowAnalysis.nan /\ RatLess(Rat(7, 10), rowAnalysis.confidence)

createNewTable(y, its, pageNumber) ==
  LET minX == SetMin({its[k].x : k \in 1..Len(its)})
      maxX == SetMax({its[k].x + its[k].width : k \in 1..Len(its)})
  IN [exists |-> TRUE, rows |-> <<>>, pageNumber |-> pageNumber,
      boundingBox |-> [x |-> minX, y |-> y, width |-> maxX - minX, height |-> 0],
      confidence |-> Rat(0, 1)]

processTableRow(its, columns) ==
  LET sortedItems == SortByX(its)
  IN [k \in 1..Len(sortedItems) |->
        [text |-> sortedItems[k].str, x |-> sortedItems[k].x,
         y |-> sortedItems[k].y, width |-> sortedItems[k].width,
         height |-> sortedItems[k].height, rowSpan |-> 0, colSpan |-> 0]]

normalizeTableStructure(table) ==
  LET byY == StableSort(table.rows,
                        [r \in 1..Len(table.rows) |-> -table.rows[r][1].y])
  IN [table EXCEPT !.rows = [r \in 1..Len(byY) |-> SortByX(byY[r])]]

finalizeTable(table, lastY) ==
  normalizeTableStructure(
    [table EXCEPT !.boundingBox.height = table.boundingBox.y - lastY])

\* The rowSpan the vertical pass of detectMergedCells finds for a cell of
\* row i (1-based): 1 plus the number of rows directly below that hold a
\* blank cell at the same x.
RECURSIVE RowSpanOf(_, _, _, _)
RowSpanOf(rows, i, cell, rowSpan) ==
  IF i + rowSpan > Len(rows) THEN rowSpan
  ELSE LET below == rows[i + rowSpan]
           hits == {k \in 1..Len(below) : Abs(below[k].x - cell.x) < 20}
       IN IF hits = {} \/ ~BlankText(below[SetMin(hits)].text) THEN rowSpan
          ELSE RowSpanOf(rows, i, cell, rowSpan + 1)

\* The colSpan the horizontal pass finds for the cell at j (1-based).
RECURSIVE ColSpanOf(_, _, _)
ColSpanOf(row, j, colSpan) ==
  IF j + colSpan > Len(row) THEN colSpan
  ELSE IF ~BlankText(row[j + colSpan].text) THEN colSpan
  ELSE ColSpanOf(row, j, colSpan + 1)

detectMergedCells(table) ==
  LET rows == table.rows
      rowSpanAt(i, j) ==
        IF i < Len(rows) THEN RowSpanOf(rows, i, rows[i][j], 1) ELSE 1
      colSpanAt(i, j) ==
        IF j < Len(rows[i]) THEN ColSpanOf(rows[i], j, 1) ELSE 1
  IN [table EXCEPT !.rows =
        [i \in 1..Len(rows) |->
           [j \in 1..Len(rows[i]) |->
              [rows[i][j] EXCEPT
                 !.rowSpan = IF rowSpanAt(i, j) > 1 THEN rowSpanAt(i, j) ELSE 0,
                 !.colSpan = IF colSpanAt(i, j) > 1 THEN colSpanAt(i, j) ELSE 0]]]]

-----------------------------------------------------------------------------
(* ContentStreamParser (first copy): byte classes *)

\* Byte values the tokenizer tests for.
LParen == 40
RParen == 41
Slash == 47
Less == 60
Greater == 62
LBracket == 91
Backslash == 92
RBracket == 93
Hash == 35

isDigit(byte) == byte >= 48 /\ byte <= 57

isRegularCharacter(byte) ==
  (byte >= 65 /\ byte <= 90) \/ (byte >= 97 /\ byte <= 122)

isHexDigit(byte) ==
  \/ (byte >= 48 /\ byte <= 57)
  \/ (byte >= 65 /\ byte <= 70)
  \/ (byte >= 97 /\ byte <= 102)

\* The value of a hex digit.
HexValue(byte) ==
  IF byte <= 57 THEN byte - 48 ELSE IF byte <= 70 THEN byte - 55 ELSE byte - 87

RECURSIVE skipWhitespace(_, _)
skipWhitespace(d, p) ==
  IF p < Len(d) /\ d[p + 1] \in {0, 9, 10, 12, 13, 32} THEN skipWhitespace(d, p + 1) ELSE p

-----------------------------------------------------------------------------
(* ContentStreamParser: the readers.  Each takes the data and the position *)
(* of the construct's first byte and gives the token value, the position   *)
(* after it, and closed: whether the reader stopped at the construct's own *)
(* terminator (FALSE: it ran into the end of the data).                    *)

\* parseFloat of a string of digits with an optional leading sign; NaN when
\* no digit follows.  The value of the longest such prefix.
RECURSIVE DigitsValue(_, _, _)
DigitsValue(str, k, acc) ==
  IF k > Len(str) \/ ~isDigit(str[k]) THEN acc
  ELSE DigitsValue(str, k + 1, acc * 10 + (str[k] - 48))

ParseFloat(str) ==
  LET signed == Len(str) > 0 /\ str[1] \in {43, 45}
      first == IF signed THEN 2 ELSE 1
  IN IF first > Len(str) \/ ~isDigit(str[first]) THEN NaN
     ELSE IF signed /\ str[1] = 45 THEN -DigitsValue(str, first, 0)
     ELSE DigitsValue(str, first, 0)

\* The objects the token values are: PDFNumber.of, PDFName.of, PDFString.of,
\* PDFHexString.of, and ("Array") the plain array of readArray.
Obj(kind, v) == [obj |-> kind, v |-> v]

RECURSIVE NumberLoop(_, _, _, _)
NumberLoop(d, p, numStr, isFloat) ==
  IF p >= Len(d) THEN [str |-> numStr, pos |-> p]
  ELSE LET byte == d[p + 1] IN
       IF isDigit(byte) \/ byte = 45 \/ byte = 43
       THEN NumberLoop(d, p + 1, Append(numStr, byte), isFloat)
       ELSE IF byte = 46 /\ ~isFloat
       THEN NumberLoop(d, p + 1, Append(numStr, 46), TRUE)
       ELSE [str |-> numStr, pos |-> p]

readNumber(d, p) ==
  LET r == NumberLoop(d, p, <<>>, FALSE)
  IN [type |-> "number", value |-> Obj("PDFNumber", ParseFloat(r.str)), pos |-> r.pos,
      closed |-> TRUE]

RECURSIVE NameLoop(_, _, _)
NameLoop(d, p, name) ==
  IF p >= Len(d) THEN [str |-> name, pos |-> p]
  ELSE LET byte == d[p + 1] IN
       IF byte = Hash
       THEN IF p + 2 < Len(d)
            THEN \* parseInt(hex, 16) as a character code (NaN gives 0)
                 LET c1 == d[p + 2]
                     c2 == d[p + 3]
                     code == IF ~isHexDigit(c1) THEN 0
                             ELSE IF ~isHexDigit(c2) THEN HexValue(c1)
                             ELSE HexValue(c1) * 16 + HexValue(c2)
                 IN NameLoop(d, p + 3, Append(name, code))
            ELSE [str |-> name, pos |-> p]
       ELSE IF isRegularCharacter(byte) \/ isDigit(byte) \/ byte = 45 \/ byte = 95
       THEN NameLoop(d, p + 1, Append(name, byte))
       ELSE [str |-> name, pos |-> p]

readName(d, p) ==
  LET r == NameLoop(d, p + 1, <<>>)
  IN [type |-> "name", value |-> Obj("PDFName", r.str), pos |-> r.pos, closed |-> TRUE]

\* The octal escape: up to two more digits directly after the first.
RECURSIVE OctalLoop(_, _, _, _)
OctalLoop(d, p, octal, i) ==
  IF i < 2 /\ p + 1 < Len(d)
  THEN IF isDigit(d[p + 2])
       THEN OctalLoop(d, p + 1, Append(octal, d[p + 2]), i + 1)
       ELSE OctalLoop(d, p, octal, i + 1)
  ELSE [octal |-> octal, pos |-> p]

\* parseInt(octal, 8): the value of the longest prefix of octal digits,
\* as a character code (NaN gives 0).
RECURSIVE OctalValue(_, _, _)
OctalValue(octal, k, acc) ==
  IF k > Len(octal) \/ octal[k] > 55 THEN acc
  ELSE OctalValue(octal, k + 1, acc * 8 + (octal[k] - 48))

RECURSIVE StringLoop(_, _, _, _, _)
StringLoop(d, p, str, escaped, parenthesesCount) ==
  IF p >= Len(d) THEN [str |-> str, pos |-> p, closed |-> FALSE]
  ELSE LET byte == d[p + 1] IN
       IF escaped
       THEN IF isDigit(byte)
            THEN LET o == OctalLoop(d, p, <<byte>>, 0)
                 IN StringLoop(d, o.pos + 1,
                               Append(str, OctalValue(o.octal, 1, 0) % 65536),
                               FALSE, parenthesesCount)
            ELSE LET char == CASE byte = 110 -> 10
                                [] byte = 114 -> 13
                                [] byte = 116 -> 9
                                [] byte = 98 -> 8
                                [] byte = 102 -> 12
                                [] OTHER -> byte
                 IN StringLoop(d, p + 1, Append(str, char), FALSE,
                               parenthesesCount)
       ELSE IF byte = Backslash
       THEN StringLoop(d, p + 1, str, TRUE, parenthesesCount)
       ELSE IF byte = LParen
       THEN StringLoop(d, p + 1, Append(str, LParen), FALSE, parenthesesCount + 1)
       ELSE IF byte = RParen
       THEN IF parenthesesCount - 1 = 0
            THEN [str |-> str, pos |-> p + 1, closed |-> TRUE]
            ELSE StringLoop(d, p + 1, Append(str, RParen), FALSE,
                            parenthesesCount - 1)
       ELSE StringLoop(d, p + 1, Append(str, byte), FALSE, parenthesesCount)

readString(d, p) ==
  LET r == StringLoop(d, p + 1, <<>>, FALSE, 1)
  IN [type |-> "string", value |-> Obj("PDFString", r.str), pos |-> r.pos, closed |-> r.closed]

RECURSIVE HexLoop(_, _, _)
HexLoop(d, p, hex) ==
  IF p >= Len(d) THEN [str |-> hex, pos |-> p, closed |-> FALSE]
  ELSE LET byte == d[p + 1] IN
       IF byte = Greater THEN [str |-> hex, pos |-> p + 1, closed |-> TRUE]
       ELSE HexLoop(d, p + 1, IF isHexDigit(byte) THEN Append(hex, byte) ELSE hex)

readHexString(d, p) ==
  LET r == HexLoop(d, p + 1, <<>>)
  IN [type |-> "string",
      value |-> Obj("PDFHexString",
                    IF Len(r.str) % 2 # 0 THEN Append(r.str, 48) ELSE r.str),
      pos |-> r.pos, closed |-> r.closed]

\* The loop of readArray from position p on; the recursive call for a
\* nested `[` is the inner readArray.  closed is FALSE also when a string
\* or array inside ran into the end of the data.
RECURSIVE ArrayLoop(_, _, _, _)
ArrayLoop(d, p0, array, inner) ==
  LET p == skipWhitespace(d, p0) IN
  IF p >= Len(d) THEN [array |-> array, pos |-> p, closed |-> FALSE]
  ELSE LET byte == d[p + 1] IN
       IF byte = RBracket
       THEN [array |-> array, pos |-> p + 1, closed |-> inner]
       ELSE IF (isDigit(byte) \/ byte \in {43, 45, 46})
       THEN LET r == readNumber(d, p)
            IN ArrayLoop(d, r.pos, Append(array, r.value), inner)
       ELSE IF byte = Slash
       THEN LET r == readName(d, p)
            IN ArrayLoop(d, r.pos, Append(array, r.value), inner)
       ELSE IF byte = LParen
       THEN LET r == readString(d, p)
            IN ArrayLoop(d, r.pos, Append(array, r.value), inner /\ r.closed)
       ELSE IF byte = Less
       THEN LET r == readHexString(d, p)
            IN ArrayLoop(d, r.pos, Append(array, r.value), inner /\ r.closed)
       ELSE IF byte = LBracket
       THEN LET r == ArrayLoop(d, p + 1, <<>>, TRUE)
            IN ArrayLoop(d, r.pos, Append(array, Obj("Array", r.array)), inner /\ r.closed)
       ELSE ArrayLoop(d, p + 1, array, inner)

readArray(d, p) ==
  LET r == ArrayLoop(d, p + 1, <<>>, TRUE)
  IN [type |-> "array", value |-> Obj("Array", r.array), pos |-> r.pos, closed |-> r.closed]

RECURSIVE OperatorLoop(_, _, _)
OperatorLoop(d, p, operator) ==
  IF p < Len(d) /\ isRegularCharacter(d[p + 1])
  THEN OperatorLoop(d, p + 1, Append(operator, d[p + 1]))
  ELSE [str |-> operator, pos |-> p]

\* A readOperator that returns its token without consuming a byte.
readOperator_Stuck(d, p) ==
  [type |-> "operator", value |-> <<>>, pos |-> p, closed |-> TRUE]

readOperator(d, p) ==
  LET r == OperatorLoop(d, p, <<>>)
  IN [type |-> "operator", value |-> r.str, pos |-> r.pos, closed |-> TRUE]

\* One iteration of the main loop of tokenize, from position p0: the tokens
\* it appends and the position it leaves.
TokenizeStep(d, p0) ==
  LET p == skipWhitespace(d, p0) IN
  IF p >= Len(d) THEN [tokens |-> <<>>, pos |-> p, closed |-> TRUE]
  ELSE LET byte == d[p + 1]
           one(r) == [tokens |-> <<[type |-> r.type, value |-> r.value]>>,
                      pos |-> r.pos, closed |-> r.closed]
       IN IF (isDigit(byte) \/ byte \in {43, 45, 46}) THEN one(readNumber(d, p))
          ELSE IF byte = Slash THEN one(readName(d, p))
          ELSE IF byte = LParen THEN one(readString(d, p))
          ELSE IF byte = Less
          THEN IF p + 1 < Len(d) /\ d[p + 2] = Less
               THEN [tokens |-> <<>>, pos |-> p + 2, closed |-> TRUE]
               ELSE one(readHexString(d, p))
          ELSE IF byte = LBracket THEN one(readArray(d, p))
          ELSE IF isRegularCharacter(byte) THEN one(readOperator(d, p))
          ELSE [tokens |-> <<>>, pos |-> p + 1, closed |-> TRUE]

\* The whole of tokenize from position p on.
RECURSIVE TokenizeFrom(_, _)
TokenizeFrom(d, p) ==
  IF p >= Len(d) THEN <<>>
  ELSE LET step == TokenizeStep(d, p)
       IN step.tokens \o TokenizeFrom(d, step.pos)

\* A parse that never clears the accumulator.
RECURSIVE ParseLoop_KeepsArgs(_, _, _, _)
ParseLoop_KeepsArgs(toks, k, args, ops) ==
  IF k > Len(toks) THEN ops
  ELSE IF toks[k].type = "operator"
  THEN ParseLoop_KeepsArgs(toks, k + 1, args,
                           Append(ops, [name |-> toks[k].value, args |-> args]))
  ELSE ParseLoop_KeepsArgs(toks, k + 1, Append(args, toks[k].value), ops)

\* The loop of parse over the tokens: PDFOperator.of(operatorName, args).
RECURSIVE ParseLoop(_, _, _, _)
ParseLoop(toks, k, args, ops) ==
  IF k > Len(toks) THEN ops
  ELSE IF toks[k].type = "operator"
  THEN ParseLoop(toks, k + 1, <<>>,
                 Append(ops, [name |-> toks[k].value, args |-> args]))
  ELSE ParseLoop(toks, k + 1, Append(args, toks[k].value), ops)

\* new ContentStreamParser(contents).parse()
ParseContents(contents) == ParseLoop(TokenizeFrom(contents, 0), 1, <<>>, <<>>)

-----------------------------------------------------------------------------
(* PDFParser: reading the arguments of an operator *)

NumMul(a, b) == IF a = NaN \/ b = NaN THEN NaN ELSE a * b

\* a < b on numbers: false when either is NaN
NumLess(a, b) == a # NaN /\ b # NaN /\ a < b

NumAbs(a) == IF a = NaN THEN NaN ELSE Abs(a)

\* The decimal digits of n >= 0.
RECURSIVE Digits(_)
Digits(n) ==
  IF n < 10 THEN <<48 + n>> ELSE Append(Digits(n \div 10), 48 + (n % 10))

RECURSIVE JoinWith(_, _)
JoinWith(strs, sep) ==
  IF strs = <<>> THEN <<>>
  ELSE IF Len(strs) = 1 THEN strs[1]
  ELSE strs[1] \o sep \o JoinWith(Tail(strs), sep)

\* arg.toString(): a number as its digits, a name with its slash, a string
\* in its delimiters, an array as its elements joined by commas.
RECURSIVE ArgToString(_)
ArgToString(arg) ==
  CASE arg.obj = "PDFNumber" ->
         IF arg.v = NaN THEN <<78, 97, 78>>
         ELSE IF arg.v < 0 THEN <<45>> \o Digits(-arg.v)
         ELSE Digits(arg.v)
    [] arg.obj = "PDFName" -> <<Slash>> \o arg.v
    [] arg.obj = "PDFString" -> <<LParen>> \o arg.v \o <<RParen>>
    [] arg.obj = "PDFHexString" -> <<Less>> \o arg.v \o <<Greater>>
    [] arg.obj = "Array" ->
         JoinWith([k \in 1..Len(arg.v) |-> ArgToString(arg.v[k])], <<44>>)

\* parseFloat(arg.toString()), in tenths of a unit: a number is its value,
\* an array the value of its first element, anything else NaN.
RECURSIVE ToNumber(_)
ToNumber(arg) ==
  CASE arg.obj = "PDFNumber" -> NumMul(arg.v, 10)
    [] arg.obj = "Array" -> IF arg.v = <<>> THEN NaN ELSE ToNumber(arg.v[1])
    [] OTHER -> NaN

\* The operator names the two loops switch on.
OpName ==
  [Tf |-> <<84, 102>>, Tm |-> <<84, 109>>, Td |-> <<84, 100>>,
   Tj |-> <<84, 106>>, TJ |-> <<84, 74>>, w |-> <<119>>, m |-> <<109>>,
   l |-> <<108>>, S |-> <<83>>, s |-> <<115>>]

\* extractTextFromOperator; ok is FALSE where the call throws a TypeError
\* (no first argument, or a first argument of TJ without map).
extractTextFromOperator(op) ==
  IF op.name = OpName.TJ
  THEN IF Len(op.args) = 0 \/ op.args[1].obj # "Array"
       THEN [ok |-> FALSE, text |-> <<>>]
       ELSE LET strs == [k \in 1..Len(op.args[1].v) |-> ArgToString(op.args[1].v[k])]
                \* str.trim().length > 0
                NonBlank(str) ==
                  \E k \in 1..Len(str) : str[k] \notin {9, 10, 11, 12, 13, 32}
                kept == SelectSeq(strs, NonBlank)
            IN [ok |-> TRUE, text |-> JoinWith(kept, <<>>)]
  ELSE IF op.name = OpName.Tj
  THEN IF Len(op.args) = 0 THEN [ok |-> FALSE, text |-> <<>>]
       ELSE [ok |-> TRUE, text |-> ArgToString(op.args[1])]
  ELSE [ok |-> TRUE, text |-> <<>>]

-----------------------------------------------------------------------------
(* PDFParser: graphics state and geometry *)

\* The state the constructor sets: no font, size 0, width 1, identity.
InitialState ==
  [currentFont |-> <<>>, fontSize |-> 0, lineWidth |-> 10,
   transform |-> <<10, 0, 0, 10, 0, 0>>]

\* matrix[i] for a 0-based i; an index past the end reads as undefined,
\* which arithmetic turns into NaN.
MatAt(matrix, i) == IF i + 1 <= Len(matrix) THEN matrix[i + 1] ELSE NaN

\* matrix[i] = v, growing the array where i is past its end.
MatSet(matrix, i, v) ==
  [k \in 1..(IF Len(matrix) > i + 1 THEN Len(matrix) ELSE i + 1) |->
     IF k = i + 1 THEN v ELSE IF k <= Len(matrix) THEN matrix[k] ELSE NaN]

\* A matrix entry times a length.
Scale(m, v) == IF m = NaN \/ v = NaN THEN NaN ELSE (m * v) \div 10

transformPoint(state, x, y) ==
  LET matrix == state.transform
  IN [x |-> NumAdd(NumAdd(Scale(MatAt(matrix, 0), x), Scale(MatAt(matrix, 2), y)),
                   MatAt(matrix, 4)),
      y |-> NumAdd(NumAdd(Scale(MatAt(matrix, 1), x), Scale(MatAt(matrix, 3), y)),
                   MatAt(matrix, 5))]

\* text.length * fontSize * 0.6
calculateTextWidth(state, text) ==
  IF state.fontSize = NaN THEN NaN ELSE (Len(text) * state.fontSize * 6) \div 10

isTableLine(start, end) ==
  LET dx == NumAbs(NumSub(end.x, start.x))
      dy == NumAbs(NumSub(end.y, start.y))
  IN /\ dx # NaN /\ dy # NaN
     /\ dx * dx + dy * dy >= 100 * 100
     /\ (dy < 20 \/ dx < 20)

\* A comparator's result as the sort reads it: NaN counts as 0.
AsOrder(v) == IF v = NaN THEN 0 ELSE v

-----------------------------------------------------------------------------
(* PDFParser.extractTextElements *)

RECURSIVE TextMergeLoop(_, _, _, _)
TextMergeLoop(sorted, k, current, merged) ==
  IF k > Len(sorted) THEN Append(merged, current)
  ELSE LET element == sorted[k]
           gap == NumSub(element.x, NumAdd(current.x, current.width))
       IN IF /\ NumLess(NumAbs(NumSub(element.y, current.y)), 20)
             /\ NumLess(NumMul(gap, 10), NumMul(current.fontSize, 3))
             /\ element.fontSize # NaN /\ element.fontSize = current.fontSize
             /\ element.fontName = current.fontName
          THEN TextMergeLoop(sorted, k + 1,
                 [current EXCEPT !.text = @ \o element.text,
                                 !.width = NumAdd(@, element.width)],
                 merged)
          ELSE TextMergeLoop(sorted, k + 1, element, Append(merged, current))

\* A mergeAdjacentText that returns the first fragment only.
mergeAdjacentText_FirstOnly(elements) ==
  IF elements = <<>> THEN <<>> ELSE <<elements[1]>>

mergeAdjacentText(elements) ==
  IF elements = <<>> THEN <<>>
  ELSE LET n == Len(elements)
           TextCompare(a, b) ==
             IF NumLess(NumAbs(NumSub(a.y, b.y)), 20)
             THEN AsOrder(NumSub(a.x, b.x))
             ELSE AsOrder(NumSub(b.y, a.y))
           compare == [i \in 1..n |-> [j \in 1..n |->
                         TextCompare(elements[i], elements[j])]]
           order == SortByCompare(n, compare)
           sorted == [k \in 1..n |-> elements[order[k]]]
       IN TextMergeLoop(sorted, 2, sorted[1], <<>>)

\* Assignment to an entry of the local currentMatrix: after a Tm it is the
\* same array as currentState.transform, before that an array of its own.
SetCurrentMatrix(st, m) ==
  IF st.aliased THEN [st EXCEPT !.cs.transform = m] ELSE [st EXCEPT !.local = m]

Thrown(st) == [st EXCEPT !.ok = FALSE]

\* One pass of the body of `for (const op of operators)` in
\* extractTextElements; reading an argument that is not there throws.
TextOp(st, op) ==
  LET args == op.args
      cm == IF st.aliased THEN st.cs.transform ELSE st.local
  IN CASE op.name = OpName.Tf ->
            IF Len(args) < 1 THEN Thrown(st)
            ELSE LET st1 == [st EXCEPT !.cs.currentFont = ArgToString(args[1])]
                 IN IF Len(args) < 2 THEN Thrown(st1)
                    ELSE [st1 EXCEPT !.cs.fontSize = ToNumber(args[2])]
       [] op.name = OpName.Tm ->
            [st EXCEPT !.cs.transform = [k \in 1..Len(args) |-> ToNumber(args[k])],
                       !.aliased = TRUE]
       [] op.name = OpName.Td ->
            IF Len(args) < 1 THEN Thrown(st)
            ELSE LET m1 == MatSet(cm, 4, NumAdd(MatAt(cm, 4), ToNumber(args[1])))
                 IN IF Len(args) < 2 THEN Thrown(SetCurrentMatrix(st, m1))
                    ELSE SetCurrentMatrix(st,
                           MatSet(m1, 5, NumAdd(MatAt(m1, 5), ToNumber(args[2]))))
       [] op.name \in {OpName.Tj, OpName.TJ} ->
            LET t == extractTextFromOperator(op)
            IN IF ~t.ok THEN Thrown(st)
               ELSE IF t.text = <<>> THEN st
               ELSE LET transformed == transformPoint(st.cs, MatAt(cm, 4), MatAt(cm, 5))
                        width == calculateTextWidth(st.cs, t.text)
                        element == [text |-> t.text,
                                    x |-> transformed.x, y |-> transformed.y,
                                    width |-> width,
                                    height |-> st.cs.fontSize,
                                    fontSize |-> st.cs.fontSize,
                                    fontName |-> st.cs.currentFont]
                    IN SetCurrentMatrix([st EXCEPT !.out = Append(@, element)],
                                        MatSet(cm, 4, NumAdd(MatAt(cm, 4), width)))
       [] OTHER -> st

RECURSIVE TextLoop(_, _, _)
TextLoop(ops, k, st) ==
  IF k > Len(ops) \/ ~st.ok THEN st ELSE TextLoop(ops, k + 1, TextOp(st, ops[k]))

-----------------------------------------------------------------------------
(* PDFParser.extractLines *)

IsHorizontal(line) == NumLess(NumAbs(NumSub(line.start.y, line.end.y)), 20)

Near(a, b) == NumLess(NumAbs(NumSub(a, b)), 20)

RECURSIVE LineMergeLoop(_, _, _, _)
LineMergeLoop(sorted, k, current, merged) ==
  IF k > Len(sorted) THEN Append(merged, current)
  ELSE LET line == sorted[k]
           connected ==
             /\ IsHorizontal(current) = IsHorizontal(line)
             /\ IF IsHorizontal(current)
                THEN /\ Near(current.start.y, line.start.y)
                     /\ Near(current.end.y, line.end.y)
                     /\ Near(current.end.x, line.start.x)
                ELSE /\ Near(current.start.x, line.start.x)
                     /\ Near(current.end.x, line.end.x)
                     /\ Near(current.end.y, line.start.y)
       IN IF connected
          THEN LineMergeLoop(sorted, k + 1, [current EXCEPT !.end = line.end], merged)
          ELSE LineMergeLoop(sorted, k + 1, line, Append(merged, current))

mergeConnectedLines(ls) ==
  IF ls = <<>> THEN <<>>
  ELSE LET n == Len(ls)
           \* a || b on numbers
           OrElse(a, b) == IF a = NaN \/ a = 0 THEN b ELSE a
           LineCompare(a, b) ==
             IF IsHorizontal(a) # IsHorizontal(b)
             THEN IF IsHorizontal(a) THEN -1 ELSE 1
             ELSE IF IsHorizontal(a)
             THEN AsOrder(OrElse(NumSub(a.start.y, b.start.y),
                                 NumSub(a.start.x, b.start.x)))
             ELSE AsOrder(OrElse(NumSub(a.start.x, b.start.x),
                                 NumSub(a.start.y, b.start.y)))
           compare == [i \in 1..n |-> [j \in 1..n |-> LineCompare(ls[i], ls[j])]]
           order == SortByCompare(n, compare)
           sorted == [k \in 1..n |-> ls[order[k]]]
       IN LineMergeLoop(sorted, 2, sorted[1], <<>>)

\* One pass of the body of `for (const op of operators)` in extractLines.
\* (The stream is read through this.getContentStream(page); the class
\* defines the getter as getStreamContents, and it is taken to be that one.)
LineOp(st, op) ==
  LET args == op.args
      \* the segments of the stroked path that pass isTableLine
      point(k) == transformPoint(st.cs, st.path[k].x, st.path[k].y)
      segments == [i \in 1..(Len(st.path) - 1) |->
                     [start |-> point(i), end |-> point(i + 1),
                      width |-> st.cs.lineWidth]]
      tableLine(seg) == isTableLine(seg.start, seg.end)
  IN CASE op.name = OpName.w ->
            IF Len(args) < 1 THEN Thrown(st)
            ELSE [st EXCEPT !.cs.lineWidth = ToNumber(args[1])]
       [] op.name = OpName.m ->
            IF Len(args) < 2 THEN Thrown(st)
            ELSE [st EXCEPT !.path = <<[x |-> ToNumber(args[1]),
                                        y |-> ToNumber(args[2])]>>]
       [] op.name = OpName.l ->
            IF st.path = <<>> THEN st
            ELSE IF Len(args) < 2 THEN Thrown(st)
            ELSE [st EXCEPT !.path = Append(@, [x |-> ToNumber(args[1]),
                                                 y |-> ToNumber(args[2])])]
       [] op.name \in {OpName.S, OpName.s} ->
            [st EXCEPT !.out = IF Len(st.path) >= 2
                               THEN @ \o SelectSeq(segments, tableLine) ELSE @,
                       !.path = <<>>]
       [] OTHER -> st

RECURSIVE LineLoop(_, _, _)
LineLoop(ops, k, st) ==
  IF k > Len(ops) \/ ~st.ok THEN st ELSE LineLoop(ops, k + 1, LineOp(st, ops[k]))

-----------------------------------------------------------------------------
(* Components that are not running *)

NullTable ==
  [exists |-> FALSE, rows |-> <<>>, pageNumber |-> 0,
   boundingBox |-> [x |-> 0, y |-> 0, width |-> 0, height |-> 0],
   confidence |-> Rat(0, 1)]

IdleExtractor ==
  /\ textElements = <<>>
  /\ lines = <<>>
  /\ options = DefaultOptions
  /\ tableRegions = <<>>
  /\ regionIdx = 0
  /\ tables = <<>>
  /\ pc = "idle"

IdleDetect ==
  /\ items = <<>>
  /\ sortedRows = <<>>
  /\ detColumnPositions = <<>>
  /\ currentTable = NullTable
  /\ consecutiveAlignedRows = 0
  /\ lastRowY = 0
  /\ rowIndex = 0
  /\ detTables = <<>>
  /\ dpc = "idle"

IdleLexer ==
  /\ data = <<>>
  /\ pos = 0
  /\ tokens = <<>>
  /\ operators = <<>>
  /\ lpc = "idle"

\* The locals at the start of a call: currentMatrix the identity, an array
\* of its own; no path; nothing collected.
FreshLocals ==
  [local |-> <<10, 0, 0, 10, 0, 0>>, aliased |-> FALSE, path |-> <<>>, out |-> <<>>,
   ok |-> TRUE]

IdleParser ==
  /\ currentState = InitialState
  /\ parserCalls = 0
  /\ call = "none"
  /\ pageContents = <<>>
  /\ pageOperators = <<>>
  /\ opIdx = 0
  /\ locals = FreshLocals
  /\ lastResult = [ok |-> TRUE, items |-> <<>>]
  /\ ppc = "idle"

-----------------------------------------------------------------------------
(* ContentStreamParser.parse as a state machine *)

\* Longest content stream.
MaxStreamLen == 4

\* The bytes of the streams: ( ) < > [ ] \ b 1 space /
\* and, whatever the length bound, the dictionary `<<b>>`.
Streams ==
  LET Alphabet == {LParen, RParen, Less, Greater, LBracket, RBracket, Backslash,
                 98, 49, 32, Slash}
  IN UNION {[1..n -> Alphabet] : n \in 0..MaxStreamLen}
     \cup {<<Less, Less, 98, Greater, Greater>>}

InitLexer ==
  /\ IdleExtractor
  /\ IdleDetect
  /\ IdleParser
  /\ data \in Streams
  /\ pos = 0
  /\ tokens = <<>>
  /\ operators = <<>>
  /\ lpc = "scan"

\* One iteration of `while (this.pos < this.data.length)` in tokenize.
ScanToken ==
  /\ lpc = "scan"
  /\ pos < Len(data)
  /\ LET step == TokenizeStep(data, pos)
     IN /\ tokens' = tokens \o step.tokens
        /\ pos' = step.pos
  /\ UNCHANGED <<data, operators, lpc>>
  /\ UNCHANGED <<extVars, detVars, parVars>>

\* tokenize returns; parse goes on with the tokens.
EndOfData ==
  /\ lpc = "scan"
  /\ pos >= Len(data)
  /\ lpc' = "parse"
  /\ UNCHANGED <<data, pos, tokens, operators>>
  /\ UNCHANGED <<extVars, detVars, parVars>>

\* The loop of parse that pairs arguments with operators.
BuildOperators ==
  /\ lpc = "parse"
  /\ operators' = ParseLoop(tokens, 1, <<>>, <<>>)
  /\ lpc' = "done"
  /\ UNCHANGED <<data, pos, tokens>>
  /\ UNCHANGED <<extVars, detVars, parVars>>

NextLexer == ScanToken \/ EndOfData \/ BuildOperators

SpecLexer == InitLexer /\ [][NextLexer]_vars

-----------------------------------------------------------------------------
(* Properties of ContentStreamParser *)

\* The construct starting at the next token position is a literal string, a
\* hex string or an array that is not terminated before the end of the data.
UnterminatedAhead ==
  LET p == skipWhitespace(data, pos) IN
  /\ p < Len(data)
  /\ data[p + 1] \in {LParen, Less, LBracket}
  /\ ~(data[p + 1] = Less /\ p + 1 < Len(data) /\ data[p + 2] = Less)
  /\ ~TokenizeStep(data, pos).closed

\* C7: an unterminated literal string, hex string or array is reported as
\* an error (MalformedStream) and produces no string or array token.
C7_UnterminatedIsError ==
  [][(lpc = "scan" /\ UnterminatedAhead) => (lpc' = "error" /\ tokens' = tokens)]_vars

-----------------------------------------------------------------------------
(* PDFParser: one instance serving page after page *)

\* Calls made on one instance.
MaxCalls == 2

\* A statement of a content stream: the arguments, then the operator, a
\* blank after each.
RECURSIVE Stmt(_, _)
Stmt(args, name) ==
  IF args = <<>> THEN name \o <<32>>
  ELSE Head(args) \o <<32>> \o Stmt(Tail(args), name)

\* `/F size Tf`
SetFont(size) == Stmt(<< <<Slash, 70>>, Digits(size) >>, OpName.Tf)

\* `1 0 0 1 e f Tm`
SetMatrix(e, f) ==
  Stmt(<<Digits(1), Digits(0), Digits(0), Digits(1), Digits(e), Digits(f)>>,
       OpName.Tm)

\* `(text) Tj`
Show(text) == Stmt(<< <<LParen>> \o text \o <<RParen>> >>, OpName.Tj)

\* `x y m x2 y2 l`
Segment(x, y, x2, y2) ==
  Stmt(<<Digits(x), Digits(y)>>, OpName.m)
  \o Stmt(<<Digits(x2), Digits(y2)>>, OpName.l)

\* `q body Q`
SavedGroup(body) == Stmt(<<>>, <<113>>) \o body \o Stmt(<<>>, <<81>>)

\* The content streams of the pages: text with and without its own Tf and
\* Tm, ruled lines with and without their own w and after a q .. Q group, a
\* path that doubles back, two overlapping rules, two strings shown at the
\* same origin, a Tj without its string.
ParserPages ==
  { <<>>,
    SetFont(12) \o SetMatrix(50, 700) \o Show(<<97, 98>>) \o Show(<<98>>),
    Show(<<97, 98>>),
    SetMatrix(50, 700) \o Show(<<97, 98>>) \o Show(<<98>>),
    SetFont(10) \o Stmt(<<Digits(10), Digits(0)>>, OpName.Td) \o Show(<<98>>)
      \o Stmt(<<Digits(0), Digits(20)>>, OpName.Td) \o Show(<<97>>),
    SetFont(10)
      \o Stmt(<< <<LBracket, LParen, 97, RParen>>, Digits(1),
                 <<LParen, 98, RParen, RBracket>> >>, OpName.TJ),
    Stmt(<<Digits(2)>>, OpName.w) \o Segment(50, 700, 250, 700)
      \o Stmt(<<>>, OpName.S),
    Segment(50, 700, 50, 600) \o Stmt(<<>>, OpName.S),
    Segment(50, 700, 150, 700) \o Stmt(<<Digits(250), Digits(701)>>, OpName.l)
      \o Stmt(<<Digits(255), Digits(701)>>, OpName.l) \o Stmt(<<>>, OpName.s)
      \o Segment(50, 700, 50, 600) \o Stmt(<<>>, OpName.S),
    SavedGroup(Stmt(<<Digits(5)>>, OpName.w)) \o Segment(50, 700, 250, 700)
      \o Stmt(<<>>, OpName.S),
    Segment(50, 700, 250, 700) \o Stmt(<<Digits(55), Digits(700)>>, OpName.l)
      \o Stmt(<<>>, OpName.S),
    Segment(50, 700, 250, 700) \o Stmt(<<>>, OpName.S)
      \o Segment(150, 700, 350, 700) \o Stmt(<<>>, OpName.S),
    SetFont(10) \o SetMatrix(50, 700) \o Show(<<97, 98>>)
      \o SetMatrix(50, 700) \o Show(<<98>>),
    Stmt(<<>>, OpName.Tj),
    Stmt(<<>>, OpName.w) }

InitParser ==
  /\ IdleExtractor
  /\ IdleDetect
  /\ IdleLexer
  /\ currentState = InitialState
  /\ parserCalls = 0
  /\ call = "none"
  /\ pageContents = <<>>
  /\ pageOperators = <<>>
  /\ opIdx = 0
  /\ locals = FreshLocals
  /\ lastResult = [ok |-> TRUE, items |-> <<>>]
  /\ ppc = "ready"

\* await pdfParser.extractTextElements(page): the page's stream is
\* parsed into operators and the loop starts.
StartExtractTextElements ==
  /\ ppc = "ready"
  /\ parserCalls < MaxCalls
  /\ \E page \in ParserPages :
       /\ pageContents' = page
       /\ pageOperators' = ParseContents(page)
  /\ call' = "text"
  /\ opIdx' = 0
  /\ locals' = FreshLocals
  /\ parserCalls' = parserCalls + 1
  /\ ppc' = "loop"
  /\ UNCHANGED <<currentState, lastResult>>
  /\ UNCHANGED <<extVars, detVars, lexVars>>

\* One operator of the loop of extractTextElements.
TextOperator ==
  /\ ppc = "loop"
  /\ call = "text"
  /\ locals.ok
  /\ opIdx < Len(pageOperators)
  /\ \E st \in {TextOp([cs |-> currentState] @@ locals, pageOperators[opIdx + 1])} :
       /\ currentState' = st.cs
       /\ locals' = [f \in DOMAIN locals |-> st[f]]
  /\ opIdx' = opIdx + 1
  /\ UNCHANGED <<parserCalls, call, pageContents, pageOperators, lastResult, ppc>>
  /\ UNCHANGED <<extVars, detVars, lexVars>>

\* extractTextElements returns this.mergeAdjacentText(textElements), or
\* has thrown.
ReturnTextElements ==
  /\ ppc = "loop"
  /\ call = "text"
  /\ ~locals.ok \/ opIdx >= Len(pageOperators)
  /\ lastResult' = [ok |-> locals.ok,
                    items |-> IF locals.ok THEN mergeAdjacentText(locals.out)
                              ELSE <<>>]
  /\ ppc' = "ready"
  /\ UNCHANGED <<currentState, parserCalls, call, pageContents, pageOperators,
                 opIdx, locals>>
  /\ UNCHANGED <<extVars, detVars, lexVars>>

\* await pdfParser.extractLines(page): the page's stream is
\* parsed into operators and the loop starts.
StartExtractLines ==
  /\ ppc = "ready"
  /\ parserCalls < MaxCalls
  /\ \E page \in ParserPages :
       /\ pageContents' = page
       /\ pageOperators' = ParseContents(page)
  /\ call' = "lines"
  /\ opIdx' = 0
  /\ locals' = FreshLocals
  /\ parserCalls' = parserCalls + 1
  /\ ppc' = "loop"
  /\ UNCHANGED <<currentState, lastResult>>
  /\ UNCHANGED <<extVars, detVars, lexVars>>

\* One operator of the loop of extractLines.
LineOperator ==
  /\ ppc = "loop"
  /\ call = "lines"
  /\ locals.ok
  /\ opIdx < Len(pageOperators)
  /\ \E st \in {LineOp([cs |-> currentState] @@ locals, pageOperators[opIdx + 1])} :
       /\ currentState' = st.cs
       /\ locals' = [f \in DOMAIN locals |-> st[f]]
  /\ opIdx' = opIdx + 1
  /\ UNCHANGED <<parserCalls, call, pageContents, pageOperators, lastResult, ppc>>
  /\ UNCHANGED <<extVars, detVars, lexVars>>

\* extractLines returns this.mergeConnectedLines(lines), or has thrown.
ReturnLines ==
  /\ ppc = "loop"
  /\ call = "lines"
  /\ ~locals.ok \/ opIdx >= Len(pageOperators)
  /\ lastResult' = [ok |-> locals.ok,
                    items |-> IF locals.ok THEN mergeConnectedLines(locals.out)
                              ELSE <<>>]
  /\ ppc' = "ready"
  /\ UNCHANGED <<currentState, parserCalls, call, pageContents, pageOperators,
                 opIdx, locals>>
  /\ UNCHANGED <<extVars, detVars, lexVars>>

NextParser ==
  \/ StartExtractTextElements
  \/ TextOperator
  \/ ReturnTextElements
  \/ StartExtractLines
  \/ LineOperator
  \/ ReturnLines

SpecParser == InitParser /\ [][NextParser]_vars

-----------------------------------------------------------------------------
(* Properties of PDFParser *)

\* extractTextElements as one function of the instance's currentState and
\* the page: the loop over the parsed operators, then the merge.
extractTextElements(state, contents) ==
  LET st == TextLoop(ParseContents(contents), 1,
                     [cs |-> state] @@ FreshLocals)
  IN [ok |-> st.ok,
      items |-> IF st.ok THEN mergeAdjacentText(st.out) ELSE <<>>]

\* extractLines likewise.
extractLines(state, contents) ==
  LET st == LineLoop(ParseContents(contents), 1,
                     [cs |-> state] @@ FreshLocals)
  IN [ok |-> st.ok,
      items |-> IF st.ok THEN mergeConnectedLines(st.out) ELSE <<>>]

\* What a fresh instance resolves with for the page of the last call.
FreshResult ==
  IF call = "text" THEN extractTextElements(InitialState, pageContents)
  ELSE extractLines(InitialState, pageContents)

\* C8: the elements and lines of a page depend only on the page's content
\* stream: whatever was processed before on the instance, a finished call
\* resolves with what a fresh instance gives for the page (font, size,
\* width and transform do not carry over).
C8_ResultDependsOnPageOnly ==
  (ppc = "ready" /\ call # "none") => lastResult = FreshResult

-----------------------------------------------------------------------------
(* detectTables as a state machine *)

\* Most rows of a page given to detectTables.
MaxDetectRows == 6

\* Vertical distance of a row to the row above: inside and outside the
\* maximum gap of 20 units.
\* A row of n items "abc" at x = 50, 100, .. on baseline y.
\* A row of TextItems: x is transform[4], y is transform[5].
ItemRow(y, n) ==
  [k \in 1..n |-> [str |-> "abc", x |-> 500 * k, y |-> y, width |-> 216,
                   height |-> 120]]

\* A page: rows top to bottom, row r lying gaps[r] below the row above it
\* and holding counts[r] items.
RECURSIVE PageItems(_, _, _, _)
PageItems(gaps, counts, r, y) ==
  IF r > Len(gaps) THEN <<>>
  ELSE ItemRow(y - gaps[r], counts[r])
       \o PageItems(gaps, counts, r + 1, y - gaps[r])

DetectPages ==
  UNION {{PageItems(gaps, counts, 1, 7160) :
            gaps \in {g \in [1..n -> {160, 240}] : g[1] = 160},
            counts \in [1..n -> {1, 2}] \cup [1..n -> {2, 3}]} :
         n \in 1..MaxDetectRows}

InitDetect ==
  /\ IdleExtractor
  /\ IdleLexer
  /\ IdleParser
  /\ items \in DetectPages
  /\ sortedRows = <<>>
  /\ detColumnPositions = <<>>
  /\ currentTable = NullTable
  /\ consecutiveAlignedRows = 0
  /\ lastRowY = 0
  /\ rowIndex = 0
  /\ detTables = <<>>
  /\ dpc = "start"

\* Steps 1 and 2: group the items into rows, detect the column positions.
GroupItems ==
  /\ dpc = "start"
  /\ sortedRows' = GroupedRows(items)
  /\ detColumnPositions' = detectColumnPositions(items)
  /\ dpc' = "walk"
  /\ UNCHANGED <<items, currentTable, consecutiveAlignedRows, lastRowY,
                 rowIndex, detTables>>
  /\ UNCHANGED <<extVars, lexVars, parVars>>

\* One call of the sortedRows.forEach callback.
WalkRow ==
  /\ dpc = "walk"
  /\ rowIndex < Len(sortedRows)
  /\ LET y == sortedRows[rowIndex + 1].y
         rowItems == sortedRows[rowIndex + 1].items
         rowAnalysis == analyzeRow(rowItems, detColumnPositions)
         isTableRow == IsTableRow(rowAnalysis)
         rowGap == Abs(y - lastRowY)
         isConsecutive == rowGap < 200
     IN IF isTableRow /\ (lastRowY = 0 \/ isConsecutive)
        THEN /\ consecutiveAlignedRows' = consecutiveAlignedRows + 1
             /\ detTables' = detTables
             /\ IF consecutiveAlignedRows + 1 >= 3
                THEN LET table == IF ~currentTable.exists
                                  THEN createNewTable(y, rowItems, 1)
                                  ELSE currentTable
                         processedRow == processTableRow(rowItems, detColumnPositions)
                     IN currentTable' =
                          IF Len(processedRow) >= 2
                          THEN [table EXCEPT
                                  !.rows = Append(table.rows, processedRow),
                                  !.confidence =
                                     IF RatLess(table.confidence, rowAnalysis.confidence)
                                     THEN rowAnalysis.confidence
                                     ELSE table.confidence]
                          ELSE table
                ELSE currentTable' = currentTable
        ELSE /\ detTables' =
                  IF currentTable.exists /\ Len(currentTable.rows) >= 3
                  THEN Append(detTables, finalizeTable(currentTable, y))
                  ELSE detTables
             /\ currentTable' = NullTable
             /\ consecutiveAlignedRows' = 0
  /\ lastRowY' = sortedRows[rowIndex + 1].y
  /\ rowIndex' = rowIndex + 1
  /\ UNCHANGED <<items, sortedRows, detColumnPositions, dpc>>
  /\ UNCHANGED <<extVars, lexVars, parVars>>

\* After the walk: add the final table, then detectMergedCells on each.
FinishDetect ==
  /\ dpc = "walk"
  /\ rowIndex >= Len(sortedRows)
  /\ LET all == IF currentTable.exists /\ Len(currentTable.rows) >= 3
                THEN Append(detTables, finalizeTable(currentTable, lastRowY))
                ELSE detTables
     IN detTables' = [t \in 1..Len(all) |-> detectMergedCells(all[t])]
  /\ dpc' = "done"
  /\ UNCHANGED <<items, sortedRows, detColumnPositions, currentTable,
                 consecutiveAlignedRows, lastRowY, rowIndex>>
  /\ UNCHANGED <<extVars, lexVars, parVars>>

NextDetect == GroupItems \/ WalkRow \/ FinishDetect

SpecDetect == InitDetect /\ [][NextDetect]_vars

-----------------------------------------------------------------------------
(* Properties of detectTables *)

\* Row r of sortedRows qualifies: confidence > 0.7 and at least 2 elements.
Qualifies(r) ==
  /\ Len(sortedRows[r].items) >= 2
  /\ IsTableRow(analyzeRow(sortedRows[r].items, detColumnPositions))

\* Row r lies less than 20 units below row r - 1.
WithinGap(r) == Abs(sortedRows[r].y - sortedRows[r - 1].y) < 200

\* Rows a..b are a run: all qualify, each after the first within the gap.
IsRun(a, b) ==
  /\ \A r \in a..b : Qualifies(r)
  /\ \A r \in (a + 1)..b : WithinGap(r)

\* A run that cannot be extended by the row above or the row below.
IsMaximalRun(a, b) ==
  /\ a <= b
  /\ IsRun(a, b)
  /\ a > 1 => ~IsRun(a - 1, b)
  /\ b < Len(sortedRows) => ~IsRun(a, b + 1)

\* The baselines of the rows of a table, top to bottom.
TableRowYs(table) == [r \in 1..Len(table.rows) |-> table.rows[r][1].y]

\* The baselines of rows a..b of the page, top to bottom.
PageRowYs(a, b) == [r \in 1..(b - a + 1) |-> sortedRows[a + r - 1].items[1].y]

\* C5: every maximal run of at least 3 qualifying rows produces a table
\* whose rows are exactly the rows of the run, first and second included.
C5_RunsBecomeTables ==
  dpc = "done" =>
    \A a \in 1..Len(sortedRows) : \A b \in a..Len(sortedRows) :
      (IsMaximalRun(a, b) /\ b - a + 1 >= 3) =>
        \E t \in 1..Len(detTables) :
          TableRowYs(detTables[t]) = PageRowYs(a, b)

\* C6: a qualifying row outside the gap to the previous row counts as the
\* first row of a new run, and with the next two qualifying rows within the
\* gap it makes a run of 3.
C6_GapRowStartsRun ==
  /\ (dpc = "walk" /\ rowIndex >= 2
      /\ Qualifies(rowIndex) /\ ~WithinGap(rowIndex))
     => consecutiveAlignedRows = 1
  /\ (dpc = "walk" /\ rowIndex >= 4
      /\ IsRun(rowIndex - 2, rowIndex) /\ ~WithinGap(rowIndex - 2))
     => consecutiveAlignedRows = 3

-----------------------------------------------------------------------------
(* TableExtractor.extractTables as a state machine *)

InitExtractor ==
  /\ IdleDetect
  /\ IdleLexer
  /\ IdleParser
  /\ textElements \in PoolPages \cup {S1Page, FarRowsPage, BlankPage, TinyPage}
  /\ lines \in LinePages
  /\ options \in [confidenceThreshold : Thresholds, cellMerging : BOOLEAN]
  /\ tableRegions = <<>>
  /\ regionIdx = 0
  /\ tables = <<>>
  /\ pc = "start"

\* const tableRegions = this.detectTableRegions(textElements, lines, ...)
DetectRegions ==
  /\ pc = "start"
  /\ LET detected == detectTableRegions(textElements, lines)
     IN /\ tableRegions' = detected.regions
        /\ pc' = IF detected.ok THEN "regions" ELSE "error"
  /\ UNCHANGED <<textElements, lines, options, regionIdx, tables>>
  /\ UNCHANGED <<detVars, lexVars, parVars>>

\* One iteration of `for (const region of tableRegions)`.
ProcessRegion ==
  /\ pc = "regions"
  /\ regionIdx < Len(tableRegions)
  /\ LET table == extractTableFromRegion(tableRegions[regionIdx + 1], options)
     IN /\ pc' = IF table.kind = "throw" THEN "error" ELSE "regions"
        /\ tables' = IF table.kind = "table" /\ validateTable(table)
                     THEN Append(tables, [cells |-> table.cells,
                                          confidence |-> table.confidence,
                                          pageNumber |-> 1])
                     ELSE tables
  /\ regionIdx' = regionIdx + 1
  /\ UNCHANGED <<textElements, lines, options, tableRegions>>
  /\ UNCHANGED <<detVars, lexVars, parVars>>

\* return tables
ReturnTables ==
  /\ pc = "regions"
  /\ regionIdx >= Len(tableRegions)
  /\ pc' = "done"
  /\ UNCHANGED <<textElements, lines, options, tableRegions, regionIdx, tables>>
  /\ UNCHANGED <<detVars, lexVars, parVars>>

NextExtractor == DetectRegions \/ ProcessRegion \/ ReturnTables

Spec == InitExtractor /\ [][NextExtractor]_vars

\* What the caller of extractTables receives.
Returned == IF pc = "done" THEN tables ELSE <<>>

-----------------------------------------------------------------------------
(* Properties of TableExtractor.extractTables *)

Terminated == pc \in {"done", "error"}

\* Sum of colSpan over the cells of a row, an unset colSpan counting as 1.
SpanSum(row) == SumSeq([k \in 1..Len(row) |-> Span(row[k].colSpan)])

\* C1: with cellMerging = true, in every returned table the sum of colSpan
\* over the cells of a row is the same for every row.
C1_EqualSpanSums ==
  options.cellMerging =>
    \A t \in 1..Len(Returned) :
      \A r \in 1..Len(Returned[t].cells) :
        SpanSum(Returned[t].cells[r]) = SpanSum(Returned[t].cells[1])

\* C2: every returned table has at least 2 rows, at least 2 cells in its
\* first row, and every row has as many cells as the first row.
C2_ReturnedTablesRectangular ==
  \A t \in 1..Len(Returned) :
    LET cells == Returned[t].cells IN
    /\ Len(cells) >= 2
    /\ Len(cells[1]) >= 2
    /\ \A r \in 1..Len(cells) : Len(cells[r]) = Len(cells[1])

\* A table of three cells per row has been returned.
C2_Witness ==
  /\ pc = "done"
  /\ Len(tables) = 1
  /\ Len(tables[1].cells) = 2
  /\ Len(tables[1].cells[1]) = 3

\* C3: the S1 page (size 12, baselines 700, 680, 660, 640, x in
\* {50, 200, 280}) with default options and no ruled lines yields exactly
\* one table of 4 rows of 3 cells carrying the input texts in reading
\* order, with confidence > 0.8.
C3_S1YieldsOneTable ==
  (Terminated /\ textElements = S1Page /\ lines = <<>> /\ options = DefaultOptions)
  => /\ pc = "done"
     /\ Len(tables) = 1
     /\ Len(tables[1].cells) = 4
     /\ \A r \in 1..4 :
          /\ Len(tables[1].cells[r]) = 3
          /\ \A c \in 1..3 : tables[1].cells[r][c].text = S1Texts[r][c]
     /\ RatLess(Rat(8, 10), tables[1].confidence)

\* The page holds two table regions, the first more than max_row_gap
\* (20 units) above the second.
TwoDisjointRegions ==
  LET regions == RegionLoop(clusterTextElements(textElements), lines, 1)
  IN /\ Len(regions) = 2
     /\ regions[1].y > regions[2].y + regions[2].height + 200

\* C4: a page with two vertically disjoint table regions is extracted
\* without error into exactly two tables, the upper region's table first.
C4_TwoRegionsTwoTables ==
  (Terminated /\ TwoDisjointRegions)
  => /\ pc = "done"
     /\ Len(tables) = 2
     /\ tables[1].cells[1][1].y > tables[2].cells[1][1].y

\* C9: every cell of every returned table has a numeric width > 0 and a
\* height > 0.
C9_CellsHavePositiveSize ==
  \A t \in 1..Len(Returned) :
    \A r \in 1..Len(Returned[t].cells) :
      \A k \in 1..Len(Returned[t].cells[r]) :
        LET cell == Returned[t].cells[r][k] IN
        /\ cell.width # NaN /\ cell.width > 0
        /\ cell.height # NaN /\ cell.height > 0

\* s is a subsequence of t.
RECURSIVE IsSubsequence(_, _)
IsSubsequence(s, t) ==
  IF s = <<>> THEN TRUE
  ELSE IF t = <<>> THEN FALSE
  ELSE IF Head(s) = Head(t) THEN IsSubsequence(Tail(s), Tail(t))
  ELSE IsSubsequence(s, Tail(t))

\* C10: every returned table has confidence >= the configured threshold,
\* and the tables returned for the same page with any threshold t2 >= the
\* configured one are a subsequence of the tables returned.
C10_ThresholdRespected ==
  /\ \A t \in 1..Len(Returned) :
       ~RatLess(Returned[t].confidence, options.confidenceThreshold)
  /\ Terminated =>
       \A t2 \in Thresholds :
         ~RatLess(t2, options.confidenceThreshold) =>
           IsSubsequence(
             extractTables(textElements, lines,
                           [options EXCEPT !.confidenceThreshold = t2]).tables,
             Returned)

\* A table is returned at threshold 0.7 that a threshold of 0.95 drops.
C10_Witness ==
  /\ pc = "done"
  /\ options.confidenceThreshold = Rat(7, 10)
  /\ Len(tables) = 1
  /\ RatLess(tables[1].confidence, Rat(95, 100))

\* ---- C11 ----
\* The grids extractTableFromRegion hands to calculateConfidence for a
\* region: the createGrid result, merged when cellMerging is on.
ScoredGrids(region, opts) ==
  LET rows == groupIntoRows(region.textElements) IN
  IF Len(rows) < 2 THEN {}
  ELSE LET grid == createGrid(rows) IN
       IF Len(grid) = 0 THEN {}
       ELSE LET merged == MergeIfEnabled(grid, opts)
            IN IF merged.ok THEN {merged.grid} ELSE {}

InUnitInterval(c) == c.d > 0 /\ 0 <= c.n /\ c.n <= c.d

\* C11: every confidence calculateConfidence computes for a region of the
\* page, kept or dropped, is a number between 0 and 1 inclusive.
C11_ConfidenceInUnitInterval ==
  \A k \in 1..Len(tableRegions) :
    \A grid \in ScoredGrids(tableRegions[k], options) :
      InUnitInterval(calculateConfidence(grid, tableRegions[k]))

\* A scored region whose lines form a grid pattern and whose other factors
\* are all 1: the product is 1.1 and the result is 1.
C11_Witness ==
  \E k \in 1..Len(tableRegions) :
    /\ Len(tableRegions[k].lines) > 0
    /\ checkGridPattern(tableRegions[k].lines)
    /\ \E grid \in ScoredGrids(tableRegions[k], options) :
         /\ calculateConfidence(grid, tableRegions[k]) = Rat(1, 1)
         /\ TotalCells(grid) > 0

\* ---- C12 ----
\* The cell's horizontal extent lies inside the box.
EnclosesX(box, cell) ==
  box.x <= cell.x /\ cell.x + cell.width <= box.x + box.width

\* The cell's baseline lies between the bottom and the top of the box,
\* which reaches from boundingBox.y down by boundingBox.height.
EnclosesY(box, cell) ==
  box.y - box.height <= cell.y /\ cell.y <= box.y

\* C12: the boundingBox of every table detectTables returns contains the
\* bounds of every cell of every row of that table.
C12_BoundingBoxEnclosesCells ==
  dpc = "done" =>
    \A t \in 1..Len(detTables) :
      \A r \in 1..Len(detTables[t].rows) :
        \A k \in 1..Len(detTables[t].rows[r]) :
          /\ EnclosesX(detTables[t].boundingBox, detTables[t].rows[r][k])
          /\ EnclosesY(detTables[t].boundingBox, detTables[t].rows[r][k])

\* ---- C13 ----
\* The table is the grid createGrid built for the region as it stands: one
\* cell per candidate column position in every row, no span set.
IsUnmergedGridOf(table, region) ==
  LET rows == groupIntoRows(region.textElements)
      columnPositions == identifyColumnPositions(rows)
  IN /\ table.cells = createGrid(rows)
     /\ \A r \in 1..Len(table.cells) :
          /\ Len(table.cells[r]) = Len(columnPositions)
          /\ \A k \in 1..Len(table.cells[r]) :
               /\ table.cells[r][k].rowSpan = 0
               /\ table.cells[r][k].colSpan = 0

\* C13: with cellMerging = false every returned table has no rowSpan or
\* colSpan set and no cell removed: each row keeps one cell per candidate
\* column position.
C13_NoMergingKeepsGrid ==
  (pc = "done" /\ ~options.cellMerging) =>
    \A t \in 1..Len(tables) :
      \E k \in 1..Len(tableRegions) : IsUnmergedGridOf(tables[t], tableRegions[k])

\* ---- C14 ----
\* No two different baselines of the page are closer than max_row_gap (20).
RowsFarApart(ys) == \A a, b \in ys : a = b \/ Abs(a - b) >= 200

\* C14: a page whose text rows are pairwise at least 20 units apart yields
\* zero tables, from detectTables and from TableExtractor.extractTables.
C14_FarRowsYieldNoTable ==
  /\ (pc = "done" /\ textElements # <<>>
        /\ RowsFarApart({textElements[k].y : k \in 1..Len(textElements)}))
       => Len(tables) = 0
  /\ (dpc = "done" /\ RowsFarApart({items[k].y : k \in 1..Len(items)}))
       => Len(detTables) = 0

\* ---- C15 ----
\* Cells of each row in ascending x, rows in descending y of their first
\* cell.
Ordered(grid) ==
  /\ \A r \in 1..Len(grid) :
       \A k \in 1..(Len(grid[r]) - 1) : grid[r][k].x < grid[r][k + 1].x
  /\ \A r \in 1..(Len(grid) - 1) : grid[r][1].y > grid[r + 1][1].y

\* C15: the grid createGrid builds for a region, the grid after
\* detectAndMergeCells, every table extractTables returns and every table
\* detectTables returns have the cells of each row in ascending x and the
\* rows in descending y of their first cell.
C15_CellsAndRowsOrdered ==
  /\ pc # "start" =>
       \A k \in 1..Len(tableRegions) :
         LET rows == groupIntoRows(tableRegions[k].textElements)
         IN /\ Ordered(createGrid(rows))
            /\ \A grid \in ScoredGrids(tableRegions[k], options) : Ordered(grid)
  /\ pc = "done" => \A t \in 1..Len(tables) : Ordered(tables[t].cells)
  /\ dpc = "done" => \A t \in 1..Len(detTables) : Ordered(detTables[t].rows)

\* A table returned for a page given out of reading order, whose grid got
\* empty cells from createGrid and lost cells to detectAndMergeCells.
C15_Witness ==
  /\ pc = "done"
  /\ options.cellMerging
  /\ textElements = FarRowsPage
  /\ Len(tables) = 1
  /\ \E r \in 1..Len(tables[1].cells) :
       /\ tables[1].cells[r][1].text = ""
       /\ \E k \in 1..Len(tables[1].cells[r]) : tables[1].cells[r][k].colSpan > 1

\* ---- C16 ----
\* The number of cells of the grid whose trimmed text is not empty.
TextCells(cells) ==
  SumSeq([r \in 1..Len(cells) |->
            Cardinality({k \in 1..Len(cells[r]) : ~BlankText(cells[r][k].text)})])

\* C16: in every table extractTables returns at least 30% of the cells that
\* remain after absorption have non-empty trimmed text.
C16_ReturnedTablesDenseEnough ==
  pc = "done" =>
    \A t \in 1..Len(tables) :
      TextCells(tables[t].cells) * 10 >= TotalCells(tables[t].cells) * 3

\* A returned table that passes on its remaining cells only: before
\* absorption less than 30% of the cells of its grid had text.
C16_Witness ==
  /\ pc = "done"
  /\ options.cellMerging
  /\ Len(tables) = 1
  /\ Len(tableRegions) = 1
  /\ LET grid == createGrid(groupIntoRows(tableRegions[1].textElements))
     IN /\ TextCells(grid) * 10 < TotalCells(grid) * 3
        /\ TotalCells(tables[1].cells) < TotalCells(grid)

\* ---- C17 ----
\* C17: a segment stroked after `q 5 w Q` gets the graphics state in force
\* before the q: on a fresh instance extractLines resolves with the lines of
\* the same page without the group.
C17_RestoreReturnsSavedState ==
  LET ruled == Segment(50, 700, 250, 700) \o Stmt(<<>>, OpName.S)
  IN (/\ ppc = "ready"
      /\ call = "lines"
      /\ parserCalls = 1
      /\ pageContents = SavedGroup(Stmt(<<Digits(5)>>, OpName.w)) \o ruled)
     => lastResult = extractLines(InitialState, ruled)

\* ---- C18 ----
\* C18: on a fresh instance (identity CTM) the page
\* `/F 12 Tf 1 0 0 1 50 700 Tm (ab) Tj (b) Tj` emits two fragments, the
\* first with origin (50, 700), the second at (50 + w, 700), w being the
\* width of the first.
C18_TmSetsFragmentOrigin ==
  (/\ ppc = "ready"
   /\ call = "text"
   /\ parserCalls = 1
   /\ pageContents = SetFont(12) \o SetMatrix(50, 700) \o Show(<<97, 98>>)
                        \o Show(<<98>>))
  => /\ locals.ok
     /\ Len(locals.out) = 2
     /\ locals.out[1].x = 500
     /\ locals.out[1].y = 7000
     /\ locals.out[2].x = 500 + locals.out[1].width
     /\ locals.out[2].y = 7000

\* ---- C19 ----
\* C19: on a fresh instance the page `/F 10 Tf [(a) 1 (b)] TJ` emits two
\* fragments, one per string of the array in array order, the second
\* shifted by -1/1000 * 10 from the end of the first.
C19_TJEmitsFragmentPerString ==
  (/\ ppc = "ready"
   /\ call = "text"
   /\ parserCalls = 1
   /\ pageContents =
        SetFont(10)
        \o Stmt(<< <<LBracket, LParen, 97, RParen>>, Digits(1),
                   <<LParen, 98, RParen, RBracket>> >>, OpName.TJ))
  => /\ locals.ok
     /\ Len(locals.out) = 2
     /\ \E k \in 1..Len(locals.out[1].text) : locals.out[1].text[k] = 97
     /\ \E k \in 1..Len(locals.out[2].text) : locals.out[2].text[k] = 98
     /\ locals.out[2].x * 1000 =
          (locals.out[1].x + locals.out[1].width) * 1000
          - 1 * locals.out[2].fontSize

\* ---- C20 ----
\* The positions of the operator tokens in the token list.
OperatorPositions == {k \in 1..Len(tokens) : tokens[k].type = "operator"}

\* The values of the non-operator tokens between the operator token before
\* position k and position k, in their order.
ArgsSincePreviousOperator(k) ==
  LET prev == SetMax({0} \cup {j \in OperatorPositions : j < k})
  IN [m \in 1..(k - prev - 1) |-> tokens[prev + m].value]

\* C20: parse returns one operator per operator token, in stream order,
\* each with exactly the non-operator tokens that came since the previous
\* operator token; arguments after the last operator give no operator.
C20_ArgumentsPairedInOrder ==
  lpc = "done" =>
    /\ Len(operators) = Cardinality(OperatorPositions)
    /\ \A k \in OperatorPositions :
         LET i == Cardinality({j \in OperatorPositions : j <= k})
         IN /\ operators[i].name = tokens[k].value
            /\ operators[i].args = ArgsSincePreviousOperator(k)

\* Two operators, the first with arguments and the second without: the
\* accumulator was cleared in between.
C20_Witness ==
  /\ lpc = "done"
  /\ Len(operators) = 2
  /\ operators[1].args # <<>>
  /\ operators[2].args = <<>>

\* ---- C21 ----
\* C21: every line extractLines resolves with is horizontal or vertical
\* within 2 units and at least 10 units long.
C21_ReturnedLinesAreTableLines ==
  (ppc = "ready" /\ call = "lines" /\ lastResult.ok) =>
    \A k \in 1..Len(lastResult.items) :
      isTableLine(lastResult.items[k].start, lastResult.items[k].end)

\* ---- C22 ----
\* Two horizontal lines on the same axis within 2 units whose spans overlap
\* or touch within 2 units.
SameInterval(a, b) ==
  LET lo(l) == IF l.start.x < l.end.x THEN l.start.x ELSE l.end.x
      hi(l) == IF l.start.x < l.end.x THEN l.end.x ELSE l.start.x
  IN /\ IsHorizontal(a) /\ IsHorizontal(b)
     /\ Abs(a.start.y - b.start.y) < 20
     /\ lo(a) < hi(b) + 20
     /\ lo(b) < hi(a) + 20

\* C22: extractLines resolves with one line per maximal interval: no two of
\* the returned horizontal lines are collinear within 2 units with spans
\* that overlap or touch.
C22_OneLinePerMaximalInterval ==
  (ppc = "ready" /\ call = "lines" /\ lastResult.ok) =>
    \A i, j \in 1..Len(lastResult.items) :
      i # j => ~SameInterval(lastResult.items[i], lastResult.items[j])

\* ---- C23 ----
\* The condition under which fragment b may be merged into fragment a.
MayMerge(a, b) ==
  LET gap == NumSub(b.x, NumAdd(a.x, a.width))
  IN /\ NumLess(NumAbs(NumSub(a.y, b.y)), 20)
     /\ a.fontName = b.fontName
     /\ a.fontSize # NaN /\ a.fontSize = b.fontSize
     /\ gap # NaN /\ gap >= 0
     /\ NumLess(NumMul(gap, 10), NumMul(a.fontSize, 3))

\* C23: mergeAdjacentText merges only fragments on the same line with the
\* same font and a gap of at least 0 and less than 0.3 * fontSize: when no
\* two fragments of the page satisfy this, every fragment is returned as an
\* element of its own.
C23_MergeOnlyAdjacentFragments ==
  (/\ ppc = "ready" /\ call = "text" /\ lastResult.ok
   /\ \A i, j \in 1..Len(locals.out) :
        i # j => ~MayMerge(locals.out[i], locals.out[j]))
  => Len(lastResult.items) = Len(locals.out)

\* ---- C24 ----
\* The positions k at which a `>>` starts that closes the `<<` the data
\* begins with: no other `<<` lies before it.
DictionaryEnds ==
  {k \in 3..(Len(data) - 1) :
     /\ data[1] = Less /\ data[2] = Less
     /\ data[k] = Greater /\ data[k + 1] = Greater
     /\ \A j \in 3..(k - 1) :
          ~(data[j] = Less /\ data[j + 1] = Less)
          /\ ~(data[j] = Greater /\ data[j + 1] = Greater)}

\* C24: a stream that begins with a dictionary `<< .. >>` gives exactly the
\* tokens of what follows the `>>`: no byte of the dictionary makes a token.
C24_DictionarySkipped ==
  lpc = "done" =>
    \A k \in DictionaryEnds : tokens = TokenizeFrom(data, k + 1)

\* ---- C25 ----
\* The cluster has the shape of a table, and ruled lines lie inside its
\* padded bounds that form no grid pattern.
HasLinesWithoutGrid(cluster) ==
  LET relevantLines == findRelevantLines(lines, calculateClusterBounds(cluster))
  IN /\ isLikelyTable(cluster, <<>>)
     /\ Len(relevantLines) > 0
     /\ ~checkGridPattern(relevantLines)

\* C25: a text cluster with the shape of a table and with ruled lines that
\* form no grid is still a candidate region of the page.
C25_LinesWithoutGridKeepRegion ==
  pc \in {"regions", "done"} =>
    LET clusters == clusterTextElements(textElements)
    IN \A c \in 1..Len(clusters) :
         HasLinesWithoutGrid(clusters[c]) =>
           \E k \in 1..Len(tableRegions) :
             tableRegions[k].textElements = clusters[c]

\* ---- C26 ----
\* C26: every iteration of the main loop of tokenize moves the read
\* position forward by at least one byte and never past the end of the data,
\* so the loop ends after at most data.length iterations.
C26_ScanAdvances ==
  [][(lpc = "scan" /\ pos < Len(data)) => (pos < pos' /\ pos' <= Len(data))]_vars

\* A stream tokenized to its end in which an array reader consumed several
\* bytes and another token follows.
C26_Witness ==
  /\ lpc = "done"
  /\ pos = Len(data)
  /\ Len(tokens) >= 2
  /\ tokens[1].type = "array"
  /\ Len(tokens[1].value.v) >= 1

\* ---- C27 ----
\* C27: the grid createGrid builds for a region has, in every row, exactly
\* one cell per column position of identifyColumnPositions.
C27_OneCellPerColumnPosition ==
  pc \in {"regions", "done"} =>
    \A k \in 1..Len(tableRegions) :
      LET rows == groupIntoRows(tableRegions[k].textElements)
          grid == createGrid(rows)
      IN \A r \in 1..Len(grid) :
           Len(grid[r]) = Len(identifyColumnPositions(rows))

\* ---- C28 ----
\* C28: detectAndMergeCells completes without an exception on the grid
\* createGrid builds for any region of the page.
C28_MergeCompletes ==
  pc \in {"regions", "done"} =>
    \A k \in 1..Len(tableRegions) :
      LET rows == groupIntoRows(tableRegions[k].textElements)
          grid == createGrid(rows)
      IN (Len(rows) >= 2 /\ Len(grid) > 0) => detectAndMergeCells(grid).ok

\* ---- C29 ----
\* The texts of the elements, one after the other.
RECURSIVE AllText(_)
AllText(elements) ==
  IF elements = <<>> THEN <<>>
  ELSE elements[1].text \o AllText(Tail(elements))

\* C29: the texts of the elements extractTextElements resolves with, one
\* after the other, are the texts of the fragments of the page in some
\* order, each once; there are no more elements than fragments and none
\* only if there was no fragment.
C29_MergeKeepsText ==
  (ppc = "ready" /\ call = "text" /\ lastResult.ok) =>
    LET n == Len(locals.out)
    IN /\ Len(lastResult.items) <= n
       /\ (Len(lastResult.items) = 0) = (n = 0)
       /\ \E order \in {f \in [1..n -> 1..n] : \A i, j \in 1..n : f[i] = f[j] => i = j} :
            AllText(lastResult.items) = AllText([k \in 1..n |-> locals.out[order[k]]])

\* Two fragments were merged into one element.
C29_Witness ==
  /\ ppc = "ready"
  /\ call = "text"
  /\ lastResult.ok
  /\ Len(locals.out) = 2
  /\ Len(lastResult.items) = 1
  /\ Len(lastResult.items[1].text) > Len(locals.out[1].text)

\* ---- C30 ----
\* The handler's workbook writer: the ranges it passes to
\* worksheet.mergeCells(top, left, bottom, right) for one table; r and c are
\* the source's 0-based rowIndex and colIndex of the cell in table.cells.
mergeCellRanges(table) ==
  UNION { { [top |-> r + 1,
             left |-> c + 1,
             bottom |-> r + Span(table.cells[r + 1][c + 1].rowSpan),
             right |-> c + Span(table.cells[r + 1][c + 1].colSpan)] :
              c \in { k \in 0..(Len(table.cells[r + 1]) - 1) :
                        \/ table.cells[r + 1][k + 1].rowSpan > 1
                        \/ table.cells[r + 1][k + 1].colSpan > 1 } } :
          r \in 0..(Len(table.cells) - 1) }

\* Two ranges share a worksheet cell.
RangesOverlap(a, b) ==
  /\ a.top <= b.bottom
  /\ b.top <= a.bottom
  /\ a.left <= b.right
  /\ b.left <= a.right

\* C30: for every returned table the ranges passed to worksheet.mergeCells
\* are pairwise disjoint, end within the table's rows and end within the
\* logical columns of their row (the sum of its column spans).
C30_MergeRangesDisjointAndInside ==
  \A t \in 1..Len(Returned) :
    LET ranges == mergeCellRanges(Returned[t]) IN
    /\ \A a, b \in ranges : a # b => ~RangesOverlap(a, b)
    /\ \A a \in ranges :
         /\ a.bottom <= Len(Returned[t].cells)
         /\ a.right <= SpanSum(Returned[t].cells[a.top])

====
